---- MODULE Spec2Model ----
(***************************************************************************)
(* StormSafe advisory synthesis pipeline.                                  *)
(*                                                                         *)
(*   claudeEngine    extractJson, normalizeRecommendation,                 *)
(*                   getRecommendation, getDefaultRecommendation           *)
(*   transitStatus   pickAlertText, pickRoutes, mapSeverity,               *)
(*                   processMtaJson, generateSummary, isPathRelevant,      *)
(*                   fetchTransitStatus                                    *)
(*   travelData      fetchTravelData, getDirections, isFerryRoute,         *)
(*                   getStormMultiplier, getDistanceCategory               *)
(*                                                                         *)
(* Each component has its own specification over the shared variables:     *)
(* SpecNorm, SpecMta, SpecTravel, SpecTransit.                             *)
(***************************************************************************)
EXTENDS Integers, Sequences, FiniteSets, TLC

VARIABLES
    recPc,        \* claudeEngine: "build" (the reply is being written) | "done"
    parsed,       \* the object handed to normalizeRecommendation, as given
    parsedAfter,  \* the same object after the call returned
    reply,        \* what the reasoning call answered (getRecommendation)
    recOut,       \* the Recommendation returned (no field before)
    mtaPc,        \* processMtaJson: "loop" | "done"
    mtaFeed,      \* the entity array of the alert feed
    mtaFilter,    \* the routeIds argument
    mtaIdx,       \* number of entities the for-loop has consumed
    subwayStatus, \* the per-line status map under construction
    maxSeverity,  \* the running severity
    mtaCalls,     \* number of calls of processMtaJson that have returned
    mtaFirst,     \* what the first call returned
    tdPc,         \* fetchTravelData: "call" | "done"
    tdIn,         \* its arguments and what the providers answer
    tdOut,        \* what it resolved to
    tsPc,         \* fetchTransitStatus: "call" | "done"
    tsIn,         \* its arguments and what the two feeds answer
    tsOut,        \* what it resolved to, and whether PATH was fetched
    cachedTravelBan, \* travelBan: the cached value, line 313
    cacheTimestamp,  \* when it was cached, line 314
    now,             \* what Date.now() returns, in milliseconds
    banOut,          \* what the last fetchTravelBan call returned
    banHit,          \* whether that call returned the cached value (line 329)
    banCalls,        \* number of fetchTravelBan calls made
    banTicks,        \* number of times the clock has advanced
    appPc,           \* App: where handleSubmit is
    appReq,          \* what the outside world answers to this request
    appStarted,      \* the fetchers called so far, in call order
    appFetched,      \* the promise of each fetcher
    appPayload,      \* the payload of lines 37-54
    appMessage,      \* what getRecommendation puts in the message it sends
    appClaudeCalls,  \* number of requests sent to /api/claude
    screen,          \* line 13
    result           \* line 14

recVars == <<recPc, parsed, parsedAfter, reply, recOut>>
mtaVars == <<mtaPc, mtaFeed, mtaFilter, mtaIdx, subwayStatus, maxSeverity,
            mtaCalls, mtaFirst>>
tdVars  == <<tdPc, tdIn, tdOut>>
tsVars  == <<tsPc, tsIn, tsOut>>
banVars == <<cachedTravelBan, cacheTimestamp, now, banOut, banHit, banCalls, banTicks>>
appVars == <<appPc, appReq, appStarted, appFetched, appPayload, appMessage,
             appClaudeCalls, screen, result>>
vars    == <<recVars, mtaVars, tdVars, tsVars, banVars, appVars>>

(***************************************************************************)
(* JavaScript values.  Every value is a record of the same shape so that   *)
(* values of different JavaScript types can be compared.                   *)
(***************************************************************************)
JsVal(t, b, n, s, a) == [t |-> t, b |-> b, n |-> n, s |-> s, a |-> a]
Undef   == JsVal("undefined", FALSE, 0, "", <<>>)
Null    == JsVal("null", FALSE, 0, "", <<>>)
Bool(b) == JsVal("boolean", b, 0, "", <<>>)
Num(n)  == JsVal("number", FALSE, n, "", <<>>)
Str(s)  == JsVal("string", FALSE, 0, s, <<>>)
Obj     == JsVal("object", FALSE, 0, "", <<>>)
Arr(a)  == JsVal("array", FALSE, 0, "", a)

\* ToBoolean: undefined, null, false, 0 and "" are falsy, everything else
\* (objects and arrays included) is truthy.
Truthy(v) ==
    CASE v.t = "undefined" -> FALSE
      [] v.t = "null"      -> FALSE
      [] v.t = "boolean"   -> v.b
      [] v.t = "number"    -> v.n # 0
      [] v.t = "string"    -> v.s # ""
      [] OTHER             -> TRUE

\* a || b
Or(a, b) == IF Truthy(a) THEN a ELSE b

IsArray(v)  == v.t = "array"
IsString(v) == v.t = "string"

\* String(r) for the element types an array of the model can hold.
JsString(v) ==
    CASE v.t = "string"    -> v.s
      [] v.t = "number"    -> IF v.n \in 0..9
                                 THEN <<"0", "1", "2", "3", "4", "5", "6", "7", "8", "9">>[v.n + 1]
                                 ELSE "number"
      [] v.t = "boolean"   -> IF v.b THEN "true" ELSE "false"
      [] v.t = "null"      -> "null"
      [] v.t = "undefined" -> "undefined"
      [] v.t = "array"     -> ""
      [] OTHER             -> "[object Object]"

(***************************************************************************)
(* claudeEngine: normalizeRecommendation                                   *)
(***************************************************************************)
VerdictFields == {"verdict", "recommendation", "not_tonight", "wait_it_out"}
ReasonFields  == {"reasons", "key_factors", "risk_factors", "factors"}
RiskFields    == {"return_risk", "risk_level", "travel_risk"}
AdviceFields  == {"best_route_advice", "transit_advice", "route_advice"}
SummaryFields == {"summary", "reasoning", "explanation"}
Fields == VerdictFields \cup ReasonFields \cup RiskFields \cup AdviceFields
          \cup SummaryFields
          \cup {"confidence"}   \* a field the enforcer never reads

allowedVerdicts == {"Go for it", "Go if you have to", "Wait it out", "Stay in tonight"}
allowedRisks    == {"low", "medium", "high", "unknown"}


\* lines 35-48
NormVerdictAliasNoNotTonight(p) ==
    Or(p["recommendation"], Or(p["wait_it_out"], Str("Wait it out")))

NormVerdictAlias(p) ==
    Or(p["recommendation"], Or(p["not_tonight"], Or(p["wait_it_out"], Str("Wait it out"))))

NormVerdict(p) ==
    LET v0 == p["verdict"]
        v1 == IF ~Truthy(v0)
              THEN LET alt == NormVerdictAlias(p)
                   IN  IF alt.t = "boolean"
                       THEN (IF alt.b THEN Str("Go for it") ELSE Str("Wait it out"))
                       ELSE alt
              ELSE v0
    IN  IF IsString(v1) /\ v1.s \in allowedVerdicts THEN v1 ELSE Str("Wait it out")

\* lines 50-58: the array the reasons are taken from, and the field of the
\* parsed object it is (by reference), "" when it is a fresh [].
ReasonSourceField(p) ==
    IF IsArray(p["reasons"]) THEN "reasons"
    ELSE IF Truthy(p["key_factors"])
         THEN (IF IsArray(p["key_factors"]) THEN "key_factors" ELSE "")
    ELSE IF Truthy(p["risk_factors"])
         THEN (IF IsArray(p["risk_factors"]) THEN "risk_factors" ELSE "")
    ELSE IF Truthy(p["factors"])
         THEN (IF IsArray(p["factors"]) THEN "factors" ELSE "")
    ELSE ""

ReasonSource(p) ==
    IF ReasonSourceField(p) = "" THEN <<>> ELSE p[ReasonSourceField(p)].a

\* lines 59-65: slice(0, 3) above three, one push below two
BoundReasons(r) ==
    LET cut == IF Len(r) > 3 THEN SubSeq(r, 1, 3) ELSE r
    IN  IF Len(cut) < 2 THEN Append(cut, Str("Unable to fully assess conditions")) ELSE cut

\* line 102
StringifyReasons(r) ==
    [i \in 1..Len(r) |-> IF IsString(r[i]) THEN r[i] ELSE Str(JsString(r[i]))]

NormReasons(p) == StringifyReasons(BoundReasons(ReasonSource(p)))

\* lines 67-77
NormRiskUnvalidated(p) ==
    LET r0 == p["return_risk"]
        r1 == IF ~Truthy(r0)
              THEN Or(p["risk_level"], Or(p["travel_risk"], Str("unknown")))
              ELSE r0
    IN  r1

NormRisk(p) ==
    LET r0 == p["return_risk"]
        r1 == IF ~Truthy(r0)
              THEN Or(p["risk_level"], Or(p["travel_risk"], Str("unknown")))
              ELSE r0
    IN  IF IsString(r1) /\ r1.s \in allowedRisks THEN r1 ELSE Str("unknown")

\* lines 79-88: a JavaScript value, string or null in the end
NormAdvice(p) ==
    LET a0 == p["best_route_advice"]
        a1 == IF ~Truthy(a0)
              THEN Or(p["transit_advice"], Or(p["route_advice"], Null))
              ELSE a0
    IN  IF Truthy(a1) /\ ~IsString(a1) THEN Null ELSE a1

\* lines 90-98
NormSummary(p) ==
    LET s0 == p["summary"]
        s1 == IF ~Truthy(s0)
              THEN Or(p["reasoning"], Or(p["transit_advice"],
                      Or(p["explanation"], Str("Unable to provide summary"))))
              ELSE s0
    IN  IF IsString(s1) THEN s1 ELSE Str("Unable to provide summary")

\* lines 33-107
normalizeRecommendation(p) ==
    [verdict           |-> NormVerdict(p),
     reasons           |-> NormReasons(p),
     return_risk       |-> NormRisk(p),
     best_route_advice |-> NormAdvice(p),
     summary           |-> NormSummary(p)]

\* lines 63-65: reasons.push acts on the parsed object's own array when the
\* reasons were taken from it and not re-sliced.
ParsedAfterNormalize(p) ==
    LET f == ReasonSourceField(p)
    IN  IF f # "" /\ Len(p[f].a) < 2
        THEN [p EXCEPT ![f] = Arr(Append(p[f].a, Str("Unable to fully assess conditions")))]
        ELSE p

(***************************************************************************)
(* claudeEngine: extractJson, getRecommendation, getDefaultRecommendation  *)
(*                                                                         *)
(* The reply text is  lead ++ body ++ tail:                                *)
(*   lead  "none" | "fence" (```json) | "prose" | "prose_fence" | "note"   *)
(*         (prose holding a {...} of its own)                              *)
(*   body  "object" (the JSON text of `parsed`) | "null" | "number" |      *)
(*         "truncated" (an object cut off before its closing brace)        *)
(*   tail  "none" | "fence" (```) | "prose" | "fence_prose" | "note"       *)
(***************************************************************************)
\* lines 17-18: the part of the text in which indexOf('{') and
\* lastIndexOf('}') land.
FirstBrace(lead, body, tail) ==
    IF lead = "note" THEN "lead"
    ELSE IF body \in {"object", "truncated"} THEN "body"
    ELSE IF tail = "note" THEN "tail"
    ELSE "absent"

LastBrace(lead, body, tail) ==
    IF tail = "note" THEN "tail"
    ELSE IF body = "object" THEN "body"
    ELSE IF lead = "note" THEN "lead"
    ELSE "absent"

\* lines 10-25: "object" | "null" | "number" for what JSON.parse returns,
\* "SyntaxError" when it throws.  When both braces exist the last one is
\* after the first one, so the text is cut down to the span between them;
\* that span is valid JSON only when it is exactly the object.
extractJson(lead, body, tail) ==
    \* line 14: the two anchored replaces remove a fence only at the very
    \* start and at the very end of the trimmed text
    LET l  == IF lead = "fence" THEN "none" ELSE lead
        t  == IF tail = "fence" THEN "none" ELSE tail
        fb == FirstBrace(l, body, t)
        lb == LastBrace(l, body, t)
    IN  IF fb # "absent" /\ lb # "absent"
        THEN (IF fb = "body" /\ lb = "body" THEN "object" ELSE "SyntaxError")
        ELSE IF fb = "absent" /\ l = "none" /\ t = "none"
             THEN body
        ELSE "SyntaxError"

\* lines 275-283
getDefaultRecommendation ==
    [verdict           |-> Str("Wait it out"),
     reasons           |-> <<Str("Unable to assess conditions - consider waiting")>>,
     return_risk       |-> Str("high"),
     best_route_advice |-> Str("Stay home or postpone your trip until conditions improve."),
     summary           |-> Str("Travel is not recommended at this time.")]

EmptyObject == [f \in Fields |-> Undef]

RecommendationForNormalizeOnFailure(r, p) ==
    IF r.kind # "text" THEN normalizeRecommendation(EmptyObject)
    ELSE LET j == extractJson(r.lead, r.body, r.tail)
         IN  CASE j = "object" -> normalizeRecommendation(p)
               [] OTHER        -> normalizeRecommendation(EmptyObject)

\* lines 240-270: what getRecommendation resolves to for a reply.
\* JSON.parse giving null makes parsed.verdict throw, which the inner catch
\* turns into the default; a number has no such fields and reads as {}.
RecommendationFor(r, p) ==
    IF r.kind # "text" THEN getDefaultRecommendation
    ELSE LET j == extractJson(r.lead, r.body, r.tail)
         IN  CASE j = "object" -> normalizeRecommendation(p)
               [] j = "number" -> normalizeRecommendation(EmptyObject)
               [] OTHER        -> getDefaultRecommendation


(***************************************************************************)
(* The objects the reasoning black box can write: any of the fields the    *)
(* enforcer reads (and one it does not), each absent or holding a value    *)
(* of every JavaScript kind the enforcer tells apart for that field.       *)
(***************************************************************************)
MaxFields      == 2
MaxReplyFields == 1
MaxReasons     == 4

\* arrays of up to MaxReasons strings, and the same with a number first
Arrays ==
    LET names == <<"r1", "r2", "r3", "r4", "r5", "r6">>
    IN  {Arr([i \in 1..n |-> Str(names[i])]) : n \in 0..MaxReasons}
        \cup {Arr([i \in 1..n |-> IF i = 1 THEN Num(5) ELSE Str(names[i])]) :
                 n \in 1..MaxReasons}

FieldDomain(f) ==
    CASE f \in VerdictFields ->
           {Null, Bool(TRUE), Bool(FALSE), Num(5), Str("Go for it"),
            Str("Stay in tonight"), Str("maybe")}
      [] f \in ReasonFields  -> {Null, Str("because")} \cup Arrays
      [] f \in RiskFields    -> {Null, Str("high"), Str("severe"), Num(5)}
      [] f \in AdviceFields  -> {Null, Str(""), Str("Take the A"), Obj}
      [] f \in SummaryFields -> {Null, Str("Bundle up"), Arr(<<>>)}
      [] OTHER               -> {Num(5)}

PresentFields(p) == {f \in Fields : p[f] # Undef}

\* The black box writes one more field of its reply.
WriteField(max) ==
    /\ recPc = "build"
    /\ Cardinality(PresentFields(parsed)) < max
    /\ \E f \in Fields \ PresentFields(parsed) : \E v \in FieldDomain(f) :
         parsed' = [parsed EXCEPT ![f] = v]
    /\ UNCHANGED <<recPc, parsedAfter, reply, recOut>>
    /\ UNCHANGED <<mtaVars, tdVars, tsVars, banVars, appVars>>

\* normalizeRecommendation(parsed), lines 33-107
Normalize ==
    /\ recPc = "build"
    /\ recPc' = "done"
    /\ recOut' = normalizeRecommendation(parsed)
    /\ parsedAfter' = ParsedAfterNormalize(parsed)
    /\ UNCHANGED <<parsed, reply>>
    /\ UNCHANGED <<mtaVars, tdVars, tsVars, banVars, appVars>>

\* getRecommendation(payload) from the reply on, lines 240-270
GetRecommendation ==
    /\ recPc = "build"
    /\ \E k \in {"reject", "not_ok", "bad_json_body", "no_content", "no_text", "text"},
          l \in {"none", "fence", "prose", "prose_fence", "note"},
          b \in {"object", "null", "number", "truncated"},
          t \in {"none", "fence", "prose", "fence_prose", "note"} :
         /\ k # "text" => (l = "none" /\ b = "null" /\ t = "none")
         /\ reply' = [kind |-> k, lead |-> l, body |-> b, tail |-> t]
         /\ recOut' = RecommendationFor(reply', parsed)
         /\ parsedAfter' =
              IF k = "text" /\ extractJson(l, b, t) = "object"
              THEN ParsedAfterNormalize(parsed) ELSE parsed
    /\ recPc' = "done"
    /\ UNCHANGED parsed
    /\ UNCHANGED <<mtaVars, tdVars, tsVars, banVars, appVars>>

\* before the reply is written; a component that is not `on` stays idle
RecInit(on) ==
    /\ recPc = IF on THEN "build" ELSE "idle"
    /\ parsed = EmptyObject
    /\ parsedAfter = EmptyObject
    /\ reply = [kind |-> "none", lead |-> "none", body |-> "null", tail |-> "none"]
    /\ recOut = [verdict |-> Undef, reasons |-> <<>>, return_risk |-> Undef,
                 best_route_advice |-> Undef, summary |-> Undef]

(***************************************************************************)
(* transitStatus: the alert normalizer                                     *)
(*                                                                         *)
(* An entity of the feed is                                                *)
(*   [alert            whether entity.alert is there,                      *)
(*    informed         [present, ids]: alert.informed_entity, ids holding  *)
(*                     each element's route_id ("" when it has none),      *)
(*    effect           alert.effect, "" when unset,                        *)
(*    header_text      [shape, text], shape one of "absent",               *)
(*    description_text "translation" ({translation: [{text}]}),            *)
(*                     "list" ([{text}]) and "plain" ({text})]             *)
(***************************************************************************)
\* lines 541-564
Lines ==
    {"A", "C", "E", "B", "D", "F", "M", "N", "Q", "R", "W",
     "1", "2", "3", "4", "5", "6", "7", "G", "J", "L", "S"}

\* lines 539-571
initSubwayStatus == [l \in Lines |-> [status |-> "normal", message |-> Null]]

\* the three places a text can sit in, lines 485-487 and 490-492
TextOf(field) ==
    Or(Or(IF field.shape = "translation" THEN Str(field.text) ELSE Undef,
          IF field.shape = "list" THEN Str(field.text) ELSE Undef),
       IF field.shape = "plain" THEN Str(field.text) ELSE Undef)

\* lines 479-496
pickAlertText(alert) ==
    Or(TextOf(alert.header_text), Or(TextOf(alert.description_text), Null))

\* lines 501-513
pickRoutes(alert) ==
    IF alert.informed.present
    THEN SelectSeq(alert.informed.ids, LAMBDA id : id # "")
    ELSE <<>>

\* lines 519-534
mapSeverity(alert) ==
    LET effect == alert.effect
    IN  CASE effect = ""                   -> "none"
          [] effect = "NO_SERVICE"         -> "extreme"
          [] effect = "REDUCED_SERVICE"    -> "high"
          [] effect = "SIGNIFICANT_DELAYS" -> "high"
          [] effect = "DETOUR"             -> "moderate"
          [] effect = "OTHER_EFFECT"       -> "moderate"
          [] effect = "UNKNOWN_EFFECT"     -> "moderate"
          [] effect = "STOP_MOVED"         -> "low"
          \* effectMap is an object literal: the name of a property it
          \* inherits from Object.prototype reads as that function
          [] effect = "constructor"        -> "function"
          [] OTHER                         -> "moderate"

Range(q) == {q[i] : i \in 1..Len(q)}

\* lines 599-603: whether the alert gets past the route filter
PassesFilter(alert, routeIds) ==
    Len(routeIds) > 0 => (Range(pickRoutes(alert)) \cap Range(routeIds) # {})

StatusOfAlwaysDelays(message) == "delays"

\* line 616
StatusOf(message) == IF Truthy(message) THEN "delays" ELSE "normal"

\* lines 612-620: the inner loop over the affected routes.  subwayStatus[id]
\* is an own entry for the known lines and for what the loop stored before;
\* it is also truthy for the name of a property that the object literal
\* inherits from Object.prototype ("constructor"), and the assignment then
\* gives the map an own entry of that name.
ApplyRoutes(status, routes, message) ==
    [l \in DOMAIN status \cup (Range(routes) \cap {"constructor"}) |->
        IF l \in Range(routes)
        THEN [status |-> StatusOf(message), message |-> message]
        ELSE status[l]]

\* line 606
NextSeverity(current, severity) ==
    IF severity # "none" THEN severity ELSE current

\* lines 593-621: one pass of the for-loop over the entities
ApplyEntity(st, entity, routeIds) ==
    IF ~entity.alert THEN st
    ELSE IF ~PassesFilter(entity, routeIds) THEN st
    ELSE [subwayStatus |-> ApplyRoutes(st.subwayStatus, pickRoutes(entity),
                                       pickAlertText(entity)),
          maxSeverity  |-> NextSeverity(st.maxSeverity, mapSeverity(entity))]

RECURSIVE ProcessEntities(_, _, _)
ProcessEntities(st, entities, routeIds) ==
    IF entities = <<>> THEN st
    ELSE ProcessEntities(ApplyEntity(st, Head(entities), routeIds),
                         Tail(entities), routeIds)

\* lines 578-624; the feed is [kind, entities] with kind "null" (no feed),
\* "no_array" (entity is not an array) or "array"
processMtaJson(mtaJson, routeIds) ==
    LET start == [subwayStatus |-> initSubwayStatus, maxSeverity |-> "none"]
    IN  IF mtaJson.kind # "array" THEN start
        ELSE ProcessEntities(start, mtaJson.entities, routeIds)

(***************************************************************************)
(* The feeds the normalizer is run on.                                     *)
(***************************************************************************)
MaxAlerts == 2

NoText == [shape |-> "absent", text |-> ""]
Text(shape, text) == [shape |-> shape, text |-> text]

Alert(ids, effect, header, description) ==
    [alert |-> TRUE, informed |-> [present |-> TRUE, ids |-> ids],
     effect |-> effect, header_text |-> header, description_text |-> description]

Entities ==
    { Alert(ids, effect, header, NoText) :
        ids \in {<<"A">>, <<"A", "4">>, <<"X">>, <<"", "4">>},
        effect \in {"", "NO_SERVICE", "STOP_MOVED"},
        header \in {NoText, Text("translation", "Trains are running with delays")} }
    \cup { Alert(<<"A">>, "PLANNED_WORK", NoText, Text("plain", "No trains overnight")),
           Alert(<<"4">>, "DETOUR", Text("list", "Rerouted"),
                 Text("translation", "Rerouted via the express track")),
           Alert(<<"A">>, "", Text("translation", ""), NoText),
           \* names that Object.prototype knows, as effect and as route id
           Alert(<<"A">>, "constructor", NoText, NoText),
           Alert(<<"constructor">>, "", Text("translation", "Service change"), NoText),
           \* an entity without an alert
           [alert |-> FALSE, informed |-> [present |-> FALSE, ids |-> <<>>],
            effect |-> "", header_text |-> NoText, description_text |-> NoText],
           \* an alert without informed_entity
           [alert |-> TRUE, informed |-> [present |-> FALSE, ids |-> <<>>],
            effect |-> "REDUCED_SERVICE",
            header_text |-> Text("translation", "Service change"),
            description_text |-> NoText] }

RECURSIVE SeqsUpTo(_, _)
SeqsUpTo(S, n) ==
    IF n = 0 THEN {<<>>}
    ELSE LET shorter == SeqsUpTo(S, n - 1)
         IN  shorter \cup {Append(q, x) : q \in shorter, x \in S}

\* no filter, a line, a line and an unknown name, a name Object.prototype knows
Filters == {<<>>, <<"4">>, <<"A", "X">>, <<"constructor">>}

StartLocalsCarried(prev) == prev

\* lines 579-580: the locals a call starts with, whatever state `prev` the
\* call before it ended in
StartLocals(prev) == [subwayStatus |-> initSubwayStatus, maxSeverity |-> "none"]

\* before the loop, on every feed of up to MaxAlerts entities; a component
\* that is not `on` stays idle
MtaInit(on) ==
    /\ mtaPc = IF on THEN "loop" ELSE "idle"
    /\ mtaFeed \in IF on
                   THEN {[kind |-> "null", entities |-> <<>>],
                         [kind |-> "no_array", entities |-> <<>>]}
                        \cup {[kind |-> "array", entities |-> q] :
                                q \in SeqsUpTo(Entities, MaxAlerts)}
                   ELSE {[kind |-> "null", entities |-> <<>>]}
    /\ mtaFilter \in IF on THEN Filters ELSE {<<>>}
    /\ mtaIdx = 0
    /\ subwayStatus = initSubwayStatus
    /\ maxSeverity = "none"
    /\ mtaCalls = 0
    /\ mtaFirst = [subwayStatus |-> initSubwayStatus, maxSeverity |-> "none"]

\* lines 582-591: no feed, or no entity array
MtaEarlyReturn ==
    /\ mtaPc = "loop"
    /\ mtaFeed.kind # "array"
    /\ mtaPc' = "done"
    /\ UNCHANGED <<mtaFeed, mtaFilter, mtaIdx, subwayStatus, maxSeverity,
                   mtaCalls, mtaFirst>>
    /\ UNCHANGED <<recVars, tdVars, tsVars, banVars, appVars>>

\* lines 593-621: the loop body on the next entity
MtaStep ==
    /\ mtaPc = "loop"
    /\ mtaFeed.kind = "array"
    /\ mtaIdx < Len(mtaFeed.entities)
    /\ LET st == ApplyEntity([subwayStatus |-> subwayStatus, maxSeverity |-> maxSeverity],
                             mtaFeed.entities[mtaIdx + 1], mtaFilter)
       IN  /\ subwayStatus' = st.subwayStatus
           /\ maxSeverity' = st.maxSeverity
    /\ mtaIdx' = mtaIdx + 1
    /\ UNCHANGED <<mtaPc, mtaFeed, mtaFilter, mtaCalls, mtaFirst>>
    /\ UNCHANGED <<recVars, tdVars, tsVars, banVars, appVars>>

\* line 623
MtaReturn ==
    /\ mtaPc = "loop"
    /\ mtaFeed.kind = "array"
    /\ mtaIdx = Len(mtaFeed.entities)
    /\ mtaPc' = "done"
    /\ UNCHANGED <<mtaFeed, mtaFilter, mtaIdx, subwayStatus, maxSeverity,
                   mtaCalls, mtaFirst>>
    /\ UNCHANGED <<recVars, tdVars, tsVars, banVars, appVars>>

\* processMtaJson is called once more with the same feed and the same filter
MtaCallAgain ==
    /\ mtaPc = "done"
    /\ mtaCalls = 0
    /\ mtaCalls' = 1
    /\ mtaFirst' = [subwayStatus |-> subwayStatus, maxSeverity |-> maxSeverity]
    /\ mtaPc' = "loop"
    /\ mtaIdx' = 0
    /\ LET st == StartLocals([subwayStatus |-> subwayStatus, maxSeverity |-> maxSeverity])
       IN  /\ subwayStatus' = st.subwayStatus
           /\ maxSeverity' = st.maxSeverity
    /\ UNCHANGED <<mtaFeed, mtaFilter>>
    /\ UNCHANGED <<recVars, tdVars, tsVars, banVars, appVars>>

(***************************************************************************)
(* Text.  A string the code searches in is the tuple of its characters.    *)
(***************************************************************************)
UpperCase ==
    <<"A", "B", "C", "D", "E", "F", "G", "H", "I", "J", "K", "L", "M",
      "N", "O", "P", "Q", "R", "S", "T", "U", "V", "W", "X", "Y", "Z">>

LowerCase ==
    <<"a", "b", "c", "d", "e", "f", "g", "h", "i", "j", "k", "l", "m",
      "n", "o", "p", "q", "r", "s", "t", "u", "v", "w", "x", "y", "z">>

Digits == {"0", "1", "2", "3", "4", "5", "6", "7", "8", "9"}

Letters == {UpperCase[i] : i \in 1..26} \cup {LowerCase[i] : i \in 1..26}

\* each letter in lower case and in upper case
CaseOf ==
    [lower |-> [c \in Letters |->
                  IF \E i \in 1..26 : UpperCase[i] = c
                  THEN LowerCase[CHOOSE i \in 1..26 : UpperCase[i] = c] ELSE c],
     upper |-> [c \in Letters |->
                  IF \E i \in 1..26 : LowerCase[i] = c
                  THEN UpperCase[CHOOSE i \in 1..26 : LowerCase[i] = c] ELSE c]]

LowerChar(c) == IF c \in Letters THEN CaseOf.lower[c] ELSE c

UpperChar(c) == IF c \in Letters THEN CaseOf.upper[c] ELSE c

\* String.prototype.toLowerCase
toLowerCase(t) == [i \in 1..Len(t) |-> LowerChar(t[i])]

\* whether needle occurs in hay at position i (1-based)
OccursAt(hay, needle, i) ==
    /\ i >= 1
    /\ i + Len(needle) - 1 <= Len(hay)
    /\ SubSeq(hay, i, i + Len(needle) - 1) = needle

\* String.prototype.includes
Includes(hay, needle) == \E i \in 1..(Len(hay) + 1) : OccursAt(hay, needle, i)

\* \w of a regular expression
IsWordChar(c) == c \in Letters \/ c \in Digits \/ c = "_"

\* "ferry", "boat", "water taxi", "bus"
Keywords ==
    [ferry     |-> <<"f", "e", "r", "r", "y">>,
     boat      |-> <<"b", "o", "a", "t">>,
     waterTaxi |-> <<"w", "a", "t", "e", "r", " ", "t", "a", "x", "i">>,
     bus       |-> <<"b", "u", "s">>]

(***************************************************************************)
(* travelData: the route normalizer                                        *)
(*                                                                         *)
(* A step is [mode, type, instruction, name, duration]: mode and           *)
(* instruction are [present, text], type is maneuver.type, duration is in  *)
(* seconds.  A route is [duration, distance, legs, steps], in seconds and  *)
(* meters, steps being legs[0].steps when legs is there.                   *)
(* Miles are kept in hundredths of a mile, multipliers in tenths.          *)
(***************************************************************************)
\* line 126: "ferry", "boat", "water taxi", "water shuttle"
FERRY_KEYWORDS ==
    {Keywords.ferry, Keywords.boat, Keywords.waterTaxi,
     <<"w", "a", "t", "e", "r", " ", "s", "h", "u", "t", "t", "l", "e">>}

\* step.maneuver?.instruction || '' and step.mode?.toLowerCase() || ''
StepText(field) == IF field.present THEN field.text ELSE <<>>

\* lines 125-135
isFerryStepModeOnly(step) == toLowerCase(StepText(step.mode)) = Keywords.ferry

isFerryStep(step) ==
    \/ toLowerCase(StepText(step.mode)) = Keywords.ferry
    \/ \E kw \in FERRY_KEYWORDS : Includes(toLowerCase(StepText(step.instruction)), kw)

isFerryRoute(steps) == \E i \in 1..Len(steps) : isFerryStep(steps[i])

\* lines 265-274, in tenths
getStormMultiplierFlat(weatherSeverity) == 10

getStormMultiplier(weatherSeverity) ==
    CASE weatherSeverity = "none"     -> 10
      [] weatherSeverity = "light"    -> 13
      [] weatherSeverity = "moderate" -> 17
      [] weatherSeverity = "severe"   -> 22
      [] weatherSeverity = "extreme"  -> 30
      [] OTHER                        -> 10

\* lines 276-280, on hundredths of a mile
getDistanceCategoryInclusive(distanceMiles) ==
    IF distanceMiles <= 80 THEN "walkable"
    ELSE IF distanceMiles <= 300 THEN "short_transit"
    ELSE "long_transit"

getDistanceCategory(distanceMiles) ==
    IF distanceMiles < 80 THEN "walkable"
    ELSE IF distanceMiles < 300 THEN "short_transit"
    ELSE "long_transit"

\* line 49: Math.round(duration / 60)
BaselineMinutes(duration) == (duration + 30) \div 60

\* line 56: Math.round(baselineMinutes * stormMultiplier)
StormMinutes(baselineMinutes, multiplier) == (baselineMinutes * multiplier + 5) \div 10

\* line 57: Math.round(distance * 0.000621371 * 10) / 10, in hundredths.
\* distance * 621371 is split as (distance * 62) * 10^4 + distance * 1371 to
\* stay within the integers of TLC.
DistanceMiles(distance) ==
    10 * (((distance * 62) + ((distance * 1371 + 50000000) \div 10000)) \div 10000)

\* The text of a route description: `first`, then `last` lowercased, and the
\* minutes (lines 238 and 244), or one of the fixed phrases (lines 250-263).
RouteText(kind, first, last, minutes, phrase) ==
    [kind |-> kind, first |-> first, last |-> last, minutes |-> minutes,
     phrase |-> phrase]

NoRouteText == RouteText("null", <<>>, <<>>, 0, "")

\* lines 228-232
IsMoveStep(step) ==
    /\ step.type # "arrive"
    /\ StepText(step.instruction) # <<>>
    \* line 227: EXCLUDED_MODES
    /\ ~\E mode \in {Keywords.bus, Keywords.ferry, Keywords.boat, Keywords.waterTaxi} :
         Includes(toLowerCase(StepText(step.instruction)), mode)

\* lines 223-245
generateStepBasedRoute(steps, totalMinutes) ==
    LET moveSteps == SelectSeq(steps, IsMoveStep)
    IN  IF Len(moveSteps) = 0 THEN NoRouteText
        ELSE IF Len(moveSteps) = 1
        THEN RouteText("one_step", StepText(moveSteps[1].instruction), <<>>, totalMinutes, "")
        ELSE RouteText("first_last", StepText(moveSteps[1].instruction),
                       toLowerCase(StepText(moveSteps[Len(moveSteps)].instruction)),
                       totalMinutes, "")

\* lines 250-263
generateFallbackRoute(distanceCategory, weatherSeverity) ==
    RouteText("phrase", <<>>, <<>>, 0,
      IF distanceCategory = "walkable"
      THEN (IF weatherSeverity = "extreme"
            THEN "Within walking distance - take shelter or use transit given the weather."
            ELSE IF weatherSeverity = "severe"
            THEN "Within walking distance - bundle up, conditions are rough."
            ELSE "Walking distance - straightforward if weather allows.")
      ELSE IF distanceCategory = "short_transit"
      THEN (IF weatherSeverity = "extreme"
            THEN "Take the subway to avoid street exposure."
            ELSE "A quick subway or bus ride - stay underground as much as possible.")
      ELSE IF weatherSeverity = "extreme"
      THEN "Take the subway or rideshare - avoid prolonged outdoor exposure."
      ELSE IF weatherSeverity = "severe"
      THEN "Subway preferred over street-level routes."
      ELSE "Take the subway when available to limit weather exposure.")

\* line 142
VALID_LINES == Lines

\* line 150: the character class [ACEDGFJLMNQRSW1-7], case-insensitive
IsLineChar(c) ==
    UpperChar(c) \in {"A", "C", "E", "D", "G", "F", "J", "L", "M", "N", "Q", "R",
                      "S", "W", "1", "2", "3", "4", "5", "6", "7"}

\* the position after the run of spaces starting at i
RECURSIVE SkipSpaces(_, _)
SkipSpaces(t, i) == IF i <= Len(t) /\ t[i] = " " THEN SkipSpaces(t, i + 1) ELSE i

\* the last position of the longest X(/X)* that starts at i (t[i] a line char)
RECURSIVE GroupEnd(_, _)
GroupEnd(t, i) ==
    IF i + 2 <= Len(t) /\ t[i + 1] = "/" /\ IsLineChar(t[i + 2])
    THEN GroupEnd(t, i + 2) ELSE i

AtBoundaryAfter(t, k) == k >= Len(t) \/ ~IsWordChar(t[k + 1])

\* \s*(?:train|line)?\b after a group ending at k
TrailOk(t, k) ==
    \/ AtBoundaryAfter(t, k)
    \/ \E w \in {<<"t", "r", "a", "i", "n">>, <<"l", "i", "n", "e">>} :
         /\ OccursAt(toLowerCase(t), w, k + 1)
         /\ AtBoundaryAfter(t, k + Len(w))

\* The group captured by a match of the pattern starting at i: <<from, to>>,
\* <<0, 0>> when the pattern does not match there.
MatchGroup(t, i) ==
    IF /\ OccursAt(toLowerCase(t), <<"t", "h", "e">>, i)
       /\ (i = 1 \/ ~IsWordChar(t[i - 1]))
       /\ i + 3 <= Len(t) /\ t[i + 3] = " "
    THEN LET g == SkipSpaces(t, i + 3)
         IN  IF g <= Len(t) /\ IsLineChar(t[g])
             THEN LET e == GroupEnd(t, g)
                  IN  IF TrailOk(t, e) THEN <<g, e>>
                      ELSE IF e > g THEN <<g, e - 2>>
                      ELSE <<0, 0>>
             ELSE <<0, 0>>
    ELSE <<0, 0>>

\* lines 151-155: the valid parts of every captured group, in text order
RECURSIVE LinesFrom(_, _)
LinesFrom(t, i) ==
    IF i > Len(t) THEN <<>>
    ELSE LET m == MatchGroup(t, i)
             parts == IF m[1] = 0 THEN <<>>
                      ELSE SelectSeq([j \in 1..(m[2] - m[1] + 1) |-> UpperChar(t[m[1] + j - 1])],
                                     LAMBDA c : c \in VALID_LINES)
         IN  parts \o LinesFrom(t, i + 1)

\* a Set keeps the first occurrence of each element, in insertion order
RECURSIVE Dedupe(_)
Dedupe(q) ==
    IF q = <<>> THEN <<>>
    ELSE LET rest == Dedupe(SubSeq(q, 1, Len(q) - 1))
         IN  IF q[Len(q)] \in Range(rest) THEN rest ELSE Append(rest, q[Len(q)])

RECURSIVE AllLines(_)
AllLines(steps) ==
    IF steps = <<>> THEN <<>>
    ELSE LinesFrom(StepText(Head(steps).instruction), 1) \o AllLines(Tail(steps))

\* lines 141-160
extractRelevantLines(steps) == Dedupe(AllLines(steps))

\* lines 186-212, given the routes of a parsed response: what it returns
DirectionsResult(kind, duration, distance, steps) ==
    [kind |-> kind, duration |-> duration, distance |-> distance, steps |-> steps]

RouteSteps(route) == IF route.legs THEN route.steps ELSE <<>>

getDirectionsFerryAsNull(response) ==
    IF response.kind # "json" \/ Len(response.routes) = 0
    THEN DirectionsResult("null", 0, 0, <<>>)
    ELSE LET nonFerryRoutes ==
                 SelectSeq(response.routes, LAMBDA r : ~isFerryRoute(RouteSteps(r)))
         IN  IF Len(nonFerryRoutes) = 0
             THEN DirectionsResult("null", 0, 0, <<>>)
             ELSE DirectionsResult("route", nonFerryRoutes[1].duration,
                                   nonFerryRoutes[1].distance,
                                   RouteSteps(nonFerryRoutes[1]))

\* lines 167-217; the response is [kind, routes] with kind "reject",
\* "not_ok", "bad_json", "no_routes" (routes missing) or "json"
getDirections(response) ==
    IF response.kind # "json" \/ Len(response.routes) = 0
    THEN DirectionsResult("null", 0, 0, <<>>)
    ELSE LET nonFerryRoutes ==
                 SelectSeq(response.routes, LAMBDA r : ~isFerryRoute(RouteSteps(r)))
         IN  IF Len(nonFerryRoutes) = 0
             THEN DirectionsResult("ferryOnly", 0, 0, <<>>)
             ELSE DirectionsResult("route", nonFerryRoutes[1].duration,
                                   nonFerryRoutes[1].distance,
                                   RouteSteps(nonFerryRoutes[1]))

TravelData(baseline, storm, miles, category, route, ferry, lines, steps) ==
    [kind |-> "data", baseline_minutes |-> baseline, storm_minutes |-> storm,
     distance_miles |-> miles, distance_category |-> category,
     best_route |-> route, ferry_only_route |-> ferry,
     relevantLines |-> lines, route_steps |-> steps]

\* what `return null` resolves to
NullTravelData ==
    [kind |-> "null", baseline_minutes |-> Null, storm_minutes |-> Null,
     distance_miles |-> Null, distance_category |-> "", best_route |-> NoRouteText,
     ferry_only_route |-> FALSE, relevantLines |-> <<>>, route_steps |-> <<>>]

\* lines 35-46
FerryOnlyTravelData ==
    TravelData(Null, Null, Null, "unknown", NoRouteText, TRUE, <<>>, <<>>)

\* lines 48-83
RouteTravelData(directionsData, weatherSeverity) ==
    LET baselineMinutes  == BaselineMinutes(directionsData.duration)
        stormMinutes     == StormMinutes(baselineMinutes, getStormMultiplier(weatherSeverity))
        distanceMiles    == DistanceMiles(directionsData.distance)
        distanceCategory == getDistanceCategory(distanceMiles)
        stepBased        == generateStepBasedRoute(directionsData.steps, baselineMinutes)
        routeDescription == IF stepBased # NoRouteText THEN stepBased
                            ELSE generateFallbackRoute(distanceCategory, weatherSeverity)
        steps            == directionsData.steps
    IN  TravelData(Num(baselineMinutes), Num(stormMinutes), Num(distanceMiles),
                   distanceCategory, routeDescription, FALSE,
                   extractRelevantLines(steps),
                   [i \in 1..(IF Len(steps) > 6 THEN 6 ELSE Len(steps)) |->
                      \* lines 78-82
                      [instruction |-> steps[i].instruction, street |-> steps[i].name,
                       duration_sec |-> steps[i].duration]])

\* lines 10-88; the call is [key, hint, geocode, directions, weatherSeverity]:
\* whether the provider key is configured, whether destCoordsHint was given,
\* how geocoding answers ("ok", "not_ok", "no_features", "reject"), the
\* directions response, and the severity argument
fetchTravelData(call) ==
    IF ~call.key THEN NullTravelData
    ELSE IF ~call.hint /\ call.geocode # "ok" THEN NullTravelData
    ELSE LET directionsData == getDirections(call.directions)
         IN  IF directionsData.kind = "null" THEN NullTravelData
             ELSE IF directionsData.kind = "ferryOnly" THEN FerryOnlyTravelData
             ELSE RouteTravelData(directionsData, call.weatherSeverity)

(***************************************************************************)
(* The directions responses the route normalizer is run on.                *)
(***************************************************************************)
MaxRoutes == 2


\* the texts of the steps: "walking", "Ferry", "Walk north on Broadway",
\* "Take the A/C train to Fulton St", "You have arrived", "Cross the river",
\* "Board the Water Taxi", "Take the bus uptown"
StepTexts ==
    [ walking |->
        <<"w", "a", "l", "k", "i", "n", "g">>,
      ferry |->
        <<"F", "e", "r", "r", "y">>,
      walkNorth |->
        <<"W", "a", "l", "k", " ", "n", "o", "r", "t", "h", " ", "o", "n",
          " ", "B", "r", "o", "a", "d", "w", "a", "y">>,
      takeTrain |->
        <<"T", "a", "k", "e", " ", "t", "h", "e", " ", "A", "/", "C", " ",
          "t", "r", "a", "i", "n", " ", "t", "o", " ", "F", "u", "l", "t",
          "o", "n", " ", "S", "t">>,
      arrived |->
        <<"Y", "o", "u", " ", "h", "a", "v", "e", " ", "a", "r", "r", "i",
          "v", "e", "d">>,
      crossRiver |->
        <<"C", "r", "o", "s", "s", " ", "t", "h", "e", " ", "r", "i", "v",
          "e", "r">>,
      waterTaxi |->
        <<"B", "o", "a", "r", "d", " ", "t", "h", "e", " ", "W", "a", "t",
          "e", "r", " ", "T", "a", "x", "i">>,
      takeBus |->
        <<"T", "a", "k", "e", " ", "t", "h", "e", " ", "b", "u", "s", " ",
          "u", "p", "t", "o", "w", "n">> ]

Present(t) == [present |-> TRUE, text |-> t]
Absent     == [present |-> FALSE, text |-> <<>>]

Step(mode, type, instruction, name, duration) ==
    [mode |-> mode, type |-> type, instruction |-> instruction, name |-> name,
     duration |-> duration]

\* the steps the routes are made of
Steps ==
    [ walk |->
        Step(Present(StepTexts.walking), "depart",
             Present(StepTexts.walkNorth), Str("Broadway"), 240),
      train |->
        Step(Present(StepTexts.walking), "turn",
             Present(StepTexts.takeTrain), Null, 900),
      arrive |->
        Step(Present(StepTexts.walking), "arrive",
             Present(StepTexts.arrived), Null, 0),
      ferry |->
        Step(Present(StepTexts.ferry), "turn",
             Present(StepTexts.crossRiver), Null, 600),
      taxi |->
        Step(Present(StepTexts.walking), "turn",
             Present(StepTexts.waterTaxi), Null, 600),
      bus |->
        Step(Present(StepTexts.walking), "turn",
             Present(StepTexts.takeBus), Null, 300) ]

Route(duration, distance, legs, steps) ==
    [duration |-> duration, distance |-> distance, legs |-> legs, steps |-> steps]

Routes ==
    { Route(1800, 1287, TRUE, <<Steps.walk, Steps.train, Steps.arrive>>),
      Route(300, 1206, FALSE, <<>>),
      Route(900, 2000, TRUE, <<Steps.walk, Steps.ferry, Steps.arrive>>),
      Route(1200, 3000, TRUE, <<Steps.taxi>>),
      Route(5400, 4748, TRUE,
            <<Steps.walk, Step(Absent, "turn", Absent, Null, 60), Steps.bus,
              Steps.walk, Steps.train, Steps.walk, Steps.arrive>>),
      Route(1170, 4747, TRUE, <<Steps.bus>>),
      Route(29, 0, TRUE, <<Steps.walk>>) }

DirectionsResponses ==
    {[kind |-> k, routes |-> <<>>] : k \in {"reject", "not_ok", "bad_json", "no_routes"}}
    \cup {[kind |-> "json", routes |-> q] : q \in SeqsUpTo(Routes, MaxRoutes)}

\* every call, among them one with a severity outside the five buckets
TravelCalls ==
    [key : BOOLEAN, hint : BOOLEAN, geocode : {"ok", "not_ok", "no_features", "reject"},
     directions : DirectionsResponses,
     weatherSeverity : {"none", "light", "moderate", "severe", "extreme", "heavy"}]

\* before the call; a component that is not `on` stays idle
TdInit(on) ==
    /\ tdPc = IF on THEN "call" ELSE "idle"
    /\ tdIn \in IF on THEN TravelCalls
                ELSE {[key |-> FALSE, hint |-> FALSE, geocode |-> "ok",
                       directions |-> [kind |-> "reject", routes |-> <<>>],
                       weatherSeverity |-> "none"]}
    /\ tdOut = NullTravelData

\* fetchTravelData(originCoords, destination, weatherSeverity, destCoordsHint)
FetchTravelData ==
    /\ tdPc = "call"
    /\ tdPc' = "done"
    /\ tdOut' = fetchTravelData(tdIn)
    /\ UNCHANGED tdIn
    /\ UNCHANGED <<recVars, mtaVars, tsVars, banVars, appVars>>

(***************************************************************************)
(* transitStatus: PATH, the summary and fetchTransitStatus                 *)
(***************************************************************************)

\* lines 662-679: "new jersey", "nj", "jersey city", "hoboken", "newark",
\* "harrison", "journal square", "grove street", "exchange place", "newport",
\* "secaucus", "bayonne", "weehawken", "edgewater", "fort lee", "union city"
NJ_KEYWORDS ==
    { <<"n", "e", "w", " ", "j", "e", "r", "s", "e", "y">>,
      <<"n", "j">>,
      <<"j", "e", "r", "s", "e", "y", " ", "c", "i", "t", "y">>,
      <<"h", "o", "b", "o", "k", "e", "n">>,
      <<"n", "e", "w", "a", "r", "k">>,
      <<"h", "a", "r", "r", "i", "s", "o", "n">>,
      <<"j", "o", "u", "r", "n", "a", "l", " ", "s", "q", "u", "a", "r", "e">>,
      <<"g", "r", "o", "v", "e", " ", "s", "t", "r", "e", "e", "t">>,
      <<"e", "x", "c", "h", "a", "n", "g", "e", " ", "p", "l", "a", "c", "e">>,
      <<"n", "e", "w", "p", "o", "r", "t">>,
      <<"s", "e", "c", "a", "u", "c", "u", "s">>,
      <<"b", "a", "y", "o", "n", "n", "e">>,
      <<"w", "e", "e", "h", "a", "w", "k", "e", "n">>,
      <<"e", "d", "g", "e", "w", "a", "t", "e", "r">>,
      <<"f", "o", "r", "t", " ", "l", "e", "e">>,
      <<"u", "n", "i", "o", "n", " ", "c", "i", "t", "y">> }


\* lines 687-690; origin and destination are [present, text]
Haystack(origin, destination) ==
    toLowerCase((IF origin.present THEN origin.text ELSE <<>>) \o <<" ">>
                \o (IF destination.present THEN destination.text ELSE <<>>))

isPathRelevant(origin, destination) ==
    \E kw \in NJ_KEYWORDS : Includes(Haystack(origin, destination), kw)

PathStatus(status, message) == [present |-> TRUE, status |-> status, message |-> message]

\* the value null in the place of a PATH status
NoPathStatus == [present |-> FALSE, status |-> "", message |-> Null]

NormalPathStatus == PathStatus("normal", Null)

\* a text with a number written into it, as a template literal makes it
Template(text, n) == JsVal("string", FALSE, n, text, <<>>)

PathMessageStatusInclusive(msg) ==
    IF /\ msg.arrivalTimeMessage.present
       /\ Includes(msg.arrivalTimeMessage.text, <<"D", "e", "l", "a", "y", "e", "d">>)
    THEN PathStatus("delays", Str("Delays on PATH - next train delayed"))
    ELSE IF msg.secondsToArrival >= 1200
    THEN PathStatus("delays", Template("Delays on PATH - next train %d min",
                                       (msg.secondsToArrival + 30) \div 60))
    ELSE NoPathStatus

\* lines 425-440: what one message makes the scan return, NoPathStatus when
\* the scan goes on.  A message is [arrivalTimeMessage, secondsToArrival],
\* the first [present, text], the second 0 when unset.
PathMessageStatus(msg) ==
    IF /\ msg.arrivalTimeMessage.present
       /\ msg.arrivalTimeMessage.text # <<>>
       /\ Includes(msg.arrivalTimeMessage.text,
                   <<"D", "e", "l", "a", "y", "e", "d">>)
    THEN PathStatus("delays", Str("Delays on PATH - next train delayed"))
    ELSE IF msg.secondsToArrival # 0 /\ msg.secondsToArrival > 1200
    THEN PathStatus("delays", Template("Delays on PATH - next train %d min",
                                       (msg.secondsToArrival + 30) \div 60))
    ELSE NoPathStatus

RECURSIVE Flatten(_)
Flatten(qq) == IF qq = <<>> THEN <<>> ELSE Head(qq) \o Flatten(Tail(qq))

RECURSIVE FirstPathStatus(_)
FirstPathStatus(msgs) ==
    IF msgs = <<>> THEN NormalPathStatus
    ELSE IF PathMessageStatus(Head(msgs)).present THEN PathMessageStatus(Head(msgs))
    ELSE FirstPathStatus(Tail(msgs))

\* lines 407-453; the response is [kind, results] with kind "reject",
\* "not_ok", "bad_json" or "json", results a sequence of results, each the
\* sequence of its destinations, each the sequence of its messages
fetchPATHStatus(response) ==
    IF response.kind # "json" THEN NormalPathStatus
    ELSE FirstPathStatus(Flatten(Flatten(response.results)))

\* lines 459-473; the response is [kind, feed]
fetchMtaAlertsJson(response) ==
    IF response.kind = "json" THEN response.feed
    ELSE [kind |-> "null", entities |-> <<>>]

\* Object.entries lists integer-like keys first, in ascending order, then the
\* other keys in insertion order (lines 541-564), a name that line 615 added
\* coming last
EntriesOrder ==
    <<"1", "2", "3", "4", "5", "6", "7",
      "A", "C", "E", "B", "D", "F", "M", "N", "Q", "R", "W", "G", "J", "L", "S",
      "constructor">>

generateSummaryWithoutPath(status, pathStatus) ==
    LET delayedLines == SelectSeq(EntriesOrder,
                                  LAMBDA l : l \in DOMAIN status /\ Truthy(status[l].message))
    IN  IF Len(delayedLines) = 0 THEN [kind |-> "good", lines |-> <<>>]
        ELSE [kind |-> "subway", lines |-> delayedLines]

\* lines 629-647; the summary is [kind, lines]: "good" is "Good service on
\* all lines", "subway" is "Delays on " and the lines joined with ", ",
\* "path" is "PATH service affected", "both" is "subway" followed by " and PATH"
generateSummary(status, pathStatus) ==
    LET delayedLines == SelectSeq(EntriesOrder,
                                  LAMBDA l : l \in DOMAIN status /\ Truthy(status[l].message))
        pathMessage  == pathStatus.present /\ Truthy(pathStatus.message)
    IN  IF Len(delayedLines) = 0 /\ ~pathMessage THEN [kind |-> "good", lines |-> <<>>]
        ELSE IF Len(delayedLines) > 0 /\ ~pathMessage
        THEN [kind |-> "subway", lines |-> delayedLines]
        ELSE IF Len(delayedLines) = 0 /\ pathMessage THEN [kind |-> "path", lines |-> <<>>]
        ELSE [kind |-> "both", lines |-> delayedLines]

TransitStatus(subway, path, summary, severity) ==
    [subway |-> subway, path |-> path, summary |-> summary, severity |-> severity]

\* lines 652-660
getDefaultTransitStatus ==
    TransitStatus(initSubwayStatus, NormalPathStatus,
                  [kind |-> "good", lines |-> <<>>], "none")

\* lines 709-716
FilterSubway(status, routeIds) ==
    IF Len(routeIds) > 0
    \* subwayStatus[id] is truthy for an own entry and for the name of a
    \* property inherited from Object.prototype, whose value is a function
    \* and has neither a status nor a message
    THEN [id \in Range(routeIds) \cap (DOMAIN status \cup {"constructor"}) |->
            IF id \in DOMAIN status THEN status[id]
            ELSE [status |-> "function", message |-> Undef]]
    ELSE status

\* lines 698-728; the call is [routeIds, origin, destination, mta, path]:
\* routeIds is [kind, ids] with kind "null" or "array", mta and path are what
\* the two endpoints answer.  With routeIds null, routeIds.length throws (line
\* 600, or line 711 when no alert was looked at), after both fetches were
\* awaited, and the catch of line 724 returns the default.
fetchTransitStatus(call) ==
    LET pathNeeded == isPathRelevant(call.origin, call.destination)
        mtaJson    == fetchMtaAlertsJson(call.mta)
        pathStatus == IF pathNeeded THEN fetchPATHStatus(call.path) ELSE NoPathStatus
    IN  IF call.routeIds.kind = "null"
        THEN getDefaultTransitStatus
        ELSE LET ids == call.routeIds.ids
                 res == processMtaJson(mtaJson, ids)
             IN  TransitStatus(FilterSubway(res.subwayStatus, ids), pathStatus,
                               generateSummary(res.subwayStatus, pathStatus),
                               res.maxSeverity)

(***************************************************************************)
(* The calls fetchTransitStatus is run on.                                 *)
(***************************************************************************)

\* "Hoboken, NJ", "Brooklyn"
Origins ==
    {Absent,
     Present(<<"H", "o", "b", "o", "k", "e", "n", ",", " ", "N", "J">>),
     Present(<<"B", "r", "o", "o", "k", "l", "y", "n">>)}

\* "Manhattan", "Queens", "JERSEY CITY"
Destinations ==
    {Absent,
     Present(<<"M", "a", "n", "h", "a", "t", "t", "a", "n">>),
     Present(<<"Q", "u", "e", "e", "n", "s">>),
     Present(<<"J", "E", "R", "S", "E", "Y", " ", "C", "I", "T", "Y">>)}

\* arrival time messages: "5 min", "delayed", "Train Delayed"
ArrivalTexts ==
    [onTime  |-> <<"5", " ", "m", "i", "n">>,
     lower   |-> <<"d", "e", "l", "a", "y", "e", "d">>,
     delayed |-> <<"T", "r", "a", "i", "n", " ", "D", "e", "l", "a", "y", "e", "d">>]

PathMessage(text, seconds) == [arrivalTimeMessage |-> text, secondsToArrival |-> seconds]

PathResponses ==
    {[kind |-> k, results |-> <<>>] : k \in {"reject", "not_ok", "bad_json"}}
    \cup {[kind |-> "json", results |-> r] :
            r \in { <<>>,
                    << << <<PathMessage(Present(ArrivalTexts.onTime), 300)>> >> >>,
                    << << <<PathMessage(Present(ArrivalTexts.onTime), 180),
                            PathMessage(Present(ArrivalTexts.delayed), 0)>> >> >>,
                    << << <<PathMessage(Absent, 1500)>> >> >>,
                    << << <<PathMessage(Absent, 1200)>> >> >>,
                    << << <<PathMessage(Absent, 1200)>>, <<>> >>,
                       << <<PathMessage(Present(ArrivalTexts.lower), 1201),
                            PathMessage(Present(ArrivalTexts.delayed), 2400)>> >> >> }}

TransitEntities ==
    { Alert(<<"A">>, "", Text("translation", "Trains are running with delays"), NoText),
      Alert(<<"A", "4">>, "NO_SERVICE", Text("translation", "No service"), NoText),
      Alert(<<"4">>, "STOP_MOVED", NoText, NoText),
      Alert(<<"X">>, "DETOUR", NoText, Text("plain", "Shuttle buses")) }

MtaResponses ==
    {[kind |-> k, feed |-> [kind |-> "null", entities |-> <<>>]] :
        k \in {"reject", "not_ok", "bad_json"}}
    \cup {[kind |-> "json", feed |-> f] :
            f \in {[kind |-> "null", entities |-> <<>>],
                   [kind |-> "no_array", entities |-> <<>>]}
                  \cup {[kind |-> "array", entities |-> q] :
                          q \in SeqsUpTo(TransitEntities, MaxAlerts)}}

TransitCalls ==
    [routeIds : {[kind |-> "null", ids |-> <<>>]}
                \cup {[kind |-> "array", ids |-> q] : q \in Filters},
     origin : Origins, destination : Destinations,
     mta : MtaResponses, path : PathResponses]

\* before the call; a component that is not `on` stays idle
TsInit(on) ==
    /\ tsPc = IF on THEN "call" ELSE "idle"
    /\ tsIn \in IF on THEN TransitCalls
                ELSE {[routeIds |-> [kind |-> "array", ids |-> <<>>],
                       origin |-> Absent, destination |-> Absent,
                       mta |-> [kind |-> "reject",
                                feed |-> [kind |-> "null", entities |-> <<>>]],
                       path |-> [kind |-> "reject", results |-> <<>>]]}
    /\ tsOut = [status |-> getDefaultTransitStatus, pathFetched |-> FALSE]

\* fetchTransitStatus(routeIds, origin, destination)
FetchTransitStatus ==
    /\ tsPc = "call"
    /\ tsPc' = "done"
    /\ tsOut' = [status |-> fetchTransitStatus(tsIn), 
                 \* line 704: whether the PATH endpoint is fetched
                 pathFetched |-> isPathRelevant(tsIn.origin, tsIn.destination)]
    /\ UNCHANGED tsIn
    /\ UNCHANGED <<recVars, mtaVars, tdVars, banVars, appVars>>

(***************************************************************************)
(* travelBan: the cache of fetchTravelBan                                  *)
(*                                                                         *)
(* A ban object is [present, id, ...]: id tells the objects apart that     *)
(* getDefaultTravelBan creates, one per call; present is FALSE for null.   *)
(***************************************************************************)
MaxBanCalls == 3
MaxTicks    == 3

\* line 315
CACHE_DURATION_MS == 10 * 60 * 1000

\* line 313: the slot before the first call
NoBan ==
    [present |-> FALSE, id |-> 0, ban_level |-> "", plain_english |-> Null,
     affects_walking |-> FALSE, affects_subway |-> FALSE, affects_rideshare |-> FALSE]

getDefaultTravelBanPerCall(id) ==
    [present |-> TRUE, id |-> id,
     ban_level |-> IF id = 1 THEN "none" ELSE "advisory",
     plain_english |-> Null,
     affects_walking |-> FALSE, affects_subway |-> FALSE, affects_rideshare |-> FALSE]

\* lines 409-417
getDefaultTravelBan(id) ==
    [present |-> TRUE, id |-> id, ban_level |-> "none", plain_english |-> Null,
     affects_walking |-> FALSE, affects_subway |-> FALSE, affects_rideshare |-> FALSE]

CacheFreshInclusive(time, timestamp) == time - timestamp <= CACHE_DURATION_MS

\* line 328
CacheFresh(time, timestamp) == time - timestamp < CACHE_DURATION_MS

\* lines 312-314, at a time of day after the epoch
BanInit ==
    /\ cachedTravelBan = NoBan
    /\ cacheTimestamp = Null
    /\ now = 1000
    /\ banOut = NoBan
    /\ banHit = FALSE
    /\ banCalls = 0
    /\ banTicks = 0

\* lines 324-342: one call, which runs without a pause since the function
\* awaits nothing
fetchTravelBan ==
    /\ banCalls' = banCalls + 1
    /\ IF /\ cachedTravelBan.present
          /\ Truthy(cacheTimestamp)
          /\ CacheFresh(now, cacheTimestamp.n)
       THEN /\ banOut' = cachedTravelBan
            /\ banHit' = TRUE
            /\ UNCHANGED <<cachedTravelBan, cacheTimestamp>>
       ELSE LET banData == getDefaultTravelBan(banCalls + 1)
            IN  /\ cachedTravelBan' = banData
                /\ cacheTimestamp' = Num(now)
                /\ banOut' = banData
                /\ banHit' = FALSE
    /\ UNCHANGED <<now, banTicks>>

\* a call made by some caller of the module
FetchTravelBan ==
    /\ banCalls < MaxBanCalls
    /\ fetchTravelBan
    /\ UNCHANGED <<recVars, mtaVars, tdVars, tsVars, appVars>>

\* time passes between two calls: a millisecond, a millisecond less than the
\* cache duration, or the cache duration
Tick ==
    /\ banTicks < MaxTicks
    /\ banTicks' = banTicks + 1
    /\ \E d \in {1, CACHE_DURATION_MS - 1, CACHE_DURATION_MS} : now' = now + d
    /\ UNCHANGED <<cachedTravelBan, cacheTimestamp, banOut, banHit, banCalls>>
    /\ UNCHANGED <<recVars, mtaVars, tdVars, tsVars, appVars>>

(***************************************************************************)
(* App: handleSubmit, one advisory request                                 *)
(*                                                                         *)
(* A promise is [state, value] with state "pending", "fulfilled" or        *)
(* "rejected".  The five fields the form hands over (coordinates, labels   *)
(* and the departure time) are copied into the payload as they are and     *)
(* are left out; InputScreen.handleGo submits only with both coordinates   *)
(* set, so destCoordsHint is always given.                                 *)
(***************************************************************************)

\* weather, lines 12-71; the call is [key, current, forecast]: whether the
\* provider key is configured and how the two endpoints answer.  The bodies
\* are fixed: 3.2 mm of rain in the last hour, wind of 5.4 m/s without
\* gusts, a visibility of 8000 m, no top-level feels_like and no alerts;
\* 6 mm of rain in the next three hours.  Amounts are in tenths of mm.
fetchWeather(call) ==
    LET allNull == [precipitation |-> Null, wind |-> Null, visibility |-> Null,
                    feelsLike |-> Null, alerts |-> Null, forecast3hr |-> Null]
        hasCurrent == call.current = "ok"
        rain1h  == IF hasCurrent THEN 32 ELSE 0
        next3hr == 60
        \* lines 78-82
        mapIntensity(mm) == IF mm < 25 THEN "light"
                            ELSE IF mm <= 100 THEN "moderate" ELSE "heavy"
        \* lines 208-213
        trend == IF 10 * next3hr > 15 * rain1h THEN "worsening"
                 ELSE IF 100 * next3hr < 75 * rain1h THEN "improving"
                 ELSE "steady"
    IN  IF ~call.key THEN allNull
        ELSE IF "reject" \in {call.current, call.forecast} THEN allNull
        ELSE [precipitation |-> IF hasCurrent
                                THEN [type |-> "rain", intensity |-> mapIntensity(rain1h)]
                                ELSE Null,
              wind          |-> IF hasCurrent THEN [speed |-> 5, gusts |-> Null] ELSE Null,
              visibility    |-> IF hasCurrent THEN Num(8) ELSE Null,
              feelsLike     |-> Null,
              alerts        |-> Null,
              forecast3hr   |-> IF call.forecast = "ok"
                                THEN [trend |-> trend, precipExpected |-> next3hr > 0]
                                ELSE Null]

\* what the outside world answers to one request: the weather endpoints, the
\* transit endpoints (from Hoboken or Brooklyn to Queens), the directions
\* endpoint and the reasoning endpoint with the object its text holds
AppRequests ==
    [weather : [key : BOOLEAN, current : {"ok", "not_ok", "reject"},
                forecast : {"ok", "not_ok", "reject"}],
     transit : [routeIds : {[kind |-> "array", ids |-> <<>>]},
                origin : {o \in Origins : o.present},
                destination : {d \in Destinations : d.present /\ Len(d.text) = 6},
                mta : {[kind |-> "reject", feed |-> [kind |-> "null", entities |-> <<>>]],
                       [kind |-> "json", feed |-> [kind |-> "array", entities |-> <<>>]],
                       [kind |-> "json",
                        feed |-> [kind |-> "array",
                                  entities |-> <<Alert(<<"A">>, "",
                                                       Text("translation",
                                                            "Trains are running with delays"),
                                                       NoText)>>]]},
                path : {[kind |-> "reject", results |-> <<>>],
                        [kind |-> "json",
                         results |-> << << <<PathMessage(Absent, 1500)>> >> >>]}],
     travel : {call \in
               [key : BOOLEAN, hint : {TRUE}, geocode : {"ok"},
               directions :
                 {[kind |-> "reject", routes |-> <<>>],
                  [kind |-> "no_routes", routes |-> <<>>],
                  [kind |-> "json",
                   routes |-> <<Route(900, 2000, TRUE, <<Steps.walk, Steps.ferry, Steps.arrive>>)>>],
                  [kind |-> "json",
                   routes |-> <<Route(1800, 1287, TRUE, <<Steps.walk, Steps.train, Steps.arrive>>)>>],
                  [kind |-> "json", routes |-> <<Route(29, 0, TRUE, <<Steps.walk>>)>>]},
               weatherSeverity : {"moderate"}] :
               call.key \/ call.directions.kind = "reject"},
     reply : {[kind |-> k, lead |-> "none", body |-> "null", tail |-> "none"] :
                 k \in {"reject", "not_ok"}}
             \cup {[kind |-> "text", lead |-> "fence", body |-> "object", tail |-> "fence"]},
     parsed : {[EmptyObject EXCEPT !["verdict"] = Str("Go for it"),
                                   !["reasons"] = Arr(<<Str("r1"), Str("r2")>>),
                                   !["return_risk"] = Str("low"),
                                   !["best_route_advice"] = Str("Take the A"),
                                   !["summary"] = Str("Bundle up")]}]

FetcherPromiseUncaught(source, req, ban) ==
    IF source = "weather" /\ req.weather.key /\ req.weather.current = "reject"
    THEN [state |-> "rejected", value |-> Null]
    ELSE [state |-> "fulfilled",
          value |-> CASE source = "weather"        -> fetchWeather(req.weather)
                      [] source = "travel_ban"     -> ban
                      [] source = "transit_status" -> fetchTransitStatus(req.transit)
                      [] OTHER                     -> fetchTravelData(req.travel)]

\* the promise a fetcher returns once the endpoints have answered: each of
\* the four catches what it throws (part_000 60-70, part_001 724-727,
\* travelData.js 84-87) and fetchTravelBan throws nothing
FetcherPromise(source, req, ban) ==
    [state |-> "fulfilled",
     value |-> CASE source = "weather"        -> fetchWeather(req.weather)
                 [] source = "travel_ban"     -> ban
                 [] source = "transit_status" -> fetchTransitStatus(req.transit)
                 [] OTHER                     -> fetchTravelData(req.travel)]

PromiseAllAsAny(fetched) ==
    IF \E s \in DOMAIN fetched : fetched[s].state = "rejected" THEN "rejected"
    ELSE IF \E s \in DOMAIN fetched : fetched[s].state = "fulfilled" THEN "fulfilled"
    ELSE "pending"

\* App.jsx line 27: Promise.all
PromiseAll(fetched) ==
    IF \E s \in DOMAIN fetched : fetched[s].state = "rejected" THEN "rejected"
    ELSE IF \A s \in DOMAIN fetched : fetched[s].state = "fulfilled" THEN "fulfilled"
    ELSE "pending"

\* App.jsx lines 37-54.  The payload has a key travel_data and no key
\* travelData: reading the latter gives undefined.
Payload(fetched) ==
    LET travelData == fetched["travel_data"].value
        isWalkable ==
            /\ "distance_category" \in DOMAIN travelData
            /\ \/ travelData.distance_category = "walkable"
               \/ /\ travelData.baseline_minutes # Null
                  /\ travelData.baseline_minutes.n < 20
    IN  [weather        |-> fetched["weather"].value,
         travel_ban     |-> fetched["travel_ban"].value,
         transit_status |-> fetched["transit_status"].value,
         travel_data    |-> travelData,
         is_walkable    |-> isWalkable,
         travelData     |-> Undef]

\* part_001 lines 155-162: the directive is [kind, lines] with kind "ferry",
\* "lines" or "none" for the empty string
routeContext(payload) ==
    LET travelData == payload.travelData
        given      == "ferry_only_route" \in DOMAIN travelData
        ferryOnly  == given /\ travelData.kind = "data" /\ travelData.ferry_only_route
        relevantLines == IF given /\ travelData.kind = "data"
                         THEN travelData.relevantLines ELSE <<>>
    IN  IF ferryOnly THEN [kind |-> "ferry", lines |-> <<>>]
        ELSE IF Len(relevantLines) > 0 THEN [kind |-> "lines", lines |-> relevantLines]
        ELSE [kind |-> "none", lines |-> <<>>]

\* part_001 lines 135-150: the transit status with its subway map cut down
\* to the lines with an issue; allNormal stands for the text 'All lines
\* normal' in the place of an empty map
strippedTransit(payload) ==
    LET status == payload.transit_status
        given  == "subway" \in DOMAIN status
        subwayProblems ==
            IF given
            THEN {line \in DOMAIN status.subway :
                     \/ status.subway[line].status # "normal"
                     \/ Truthy(status.subway[line].message)}
            ELSE {}
    IN  [subway  |-> [allNormal |-> subwayProblems = {},
                      lines |-> [line \in subwayProblems |-> status.subway[line]]],
         path    |-> IF given THEN status.path ELSE NoPathStatus,
         summary |-> IF given THEN status.summary ELSE [kind |-> "good", lines |-> <<>>]]

\* App.jsx lines 13-14; a component that is not `on` stays idle
AppInit(on) ==
    /\ appPc = IF on THEN "input" ELSE "idle"
    /\ appReq \in IF on THEN AppRequests
                 ELSE {[weather |-> [key |-> FALSE, current |-> "reject",
                                     forecast |-> "reject"],
                        transit |-> [routeIds |-> [kind |-> "array", ids |-> <<>>],
                                     origin |-> Absent, destination |-> Absent,
                                     mta |-> [kind |-> "reject",
                                              feed |-> [kind |-> "null", entities |-> <<>>]],
                                     path |-> [kind |-> "reject", results |-> <<>>]],
                        travel |-> [key |-> FALSE, hint |-> TRUE, geocode |-> "ok",
                                    directions |-> [kind |-> "reject", routes |-> <<>>],
                                    weatherSeverity |-> "moderate"],
                        reply |-> [kind |-> "reject", lead |-> "none", body |-> "null",
                                   tail |-> "none"],
                        parsed |-> EmptyObject]}
    /\ appStarted = <<>>
    /\ appFetched = [s \in {"weather", "travel_ban", "transit_status", "travel_data"} |->
                       [state |-> "pending", value |-> Null]]
    /\ appPayload = Null
    /\ appMessage = Null
    /\ appClaudeCalls = 0
    /\ screen = "input"
    /\ result = Null

\* App.jsx lines 25-35: the four fetchers are called one after the other, and
\* then the join is awaited; fetchTravelBan runs to its end inside its call
HandleSubmit ==
    /\ appPc = "input"
    /\ appPc' = "awaiting"
    /\ screen' = "loading"
    /\ appStarted' = <<"weather", "travel_ban", "transit_status", "travel_data">>
    /\ fetchTravelBan
    /\ UNCHANGED <<appReq, appFetched, appPayload, appMessage, appClaudeCalls, result>>
    /\ UNCHANGED <<recVars, mtaVars, tdVars, tsVars>>

\* one of the fetchers that were called settles
FetcherSettles ==
    /\ appPc = "awaiting"
    /\ \E i \in 1..Len(appStarted) :
         /\ appFetched[appStarted[i]].state = "pending"
         /\ appFetched' = [appFetched EXCEPT
                             ![appStarted[i]] = FetcherPromise(appStarted[i], appReq, banOut)]
    /\ UNCHANGED <<appPc, appReq, appStarted, appPayload, appMessage, appClaudeCalls,
                   screen, result>>
    /\ UNCHANGED <<recVars, mtaVars, tdVars, tsVars, banVars>>

\* App.jsx lines 27-56 and 60-63, part_001 lines 114-164: the join settles;
\* handleSubmit builds the payload and getRecommendation sends its message
BuildPayload ==
    /\ appPc = "awaiting"
    /\ PromiseAll(appFetched) # "pending"
    /\ IF PromiseAll(appFetched) = "rejected"
       THEN /\ appPc' = "done"
            /\ screen' = "input"
            /\ UNCHANGED <<appPayload, appMessage, appClaudeCalls>>
       ELSE /\ appPc' = "reasoning"
            /\ appPayload' = Payload(appFetched)
            \* part_001 lines 228-234: the content of the message
            /\ appMessage' = [routeContext    |-> routeContext(Payload(appFetched)),
                              strippedTransit |-> strippedTransit(Payload(appFetched)),
                              payload         |-> Payload(appFetched)]
            /\ appClaudeCalls' = appClaudeCalls + 1
            /\ UNCHANGED screen
    /\ UNCHANGED <<appReq, appStarted, appFetched, result>>
    /\ UNCHANGED <<recVars, mtaVars, tdVars, tsVars, banVars>>

getRecommendationUncaught(r, p) ==
    IF r.kind = "reject" THEN [state |-> "rejected", value |-> Null]
    ELSE [state |-> "fulfilled", value |-> RecommendationFor(r, p)]

\* part_001 lines 114-270: the promise getRecommendation returns; its outer
\* catch (lines 266-269) turns whatever is thrown into the default
getRecommendation(r, p) ==
    [state |-> "fulfilled", value |-> RecommendationFor(r, p)]

\* App.jsx lines 56-63: the reasoning call settles
ShowResult ==
    /\ appPc = "reasoning"
    /\ appPc' = "done"
    /\ LET promise == getRecommendation(appReq.reply, appReq.parsed)
       IN  IF promise.state = "rejected"
           THEN /\ screen' = "input"
                /\ UNCHANGED result
           ELSE /\ result' = [recommendation |-> promise.value,
                              transit        |-> appPayload.transit_status,
                              travelData     |-> appPayload.travel_data,
                              weather        |-> appPayload.weather]
                /\ screen' = "result"
    /\ UNCHANGED <<appReq, appStarted, appFetched, appPayload, appMessage, appClaudeCalls>>
    /\ UNCHANGED <<recVars, mtaVars, tdVars, tsVars, banVars>>

(***************************************************************************)
(* Specifications, one per component; the other components stay idle.      *)
(***************************************************************************)
Init(c) ==
    /\ RecInit(c = "rec") /\ MtaInit(c = "mta") /\ TdInit(c = "td") /\ TsInit(c = "ts")
    /\ BanInit /\ AppInit(c = "app")

\* normalizeRecommendation on every object of up to MaxFields fields
SpecNorm == Init("rec") /\ [][WriteField(MaxFields) \/ Normalize]_vars

\* getRecommendation on every reply
SpecRec == Init("rec") /\ [][WriteField(MaxReplyFields) \/ GetRecommendation]_vars

\* processMtaJson on every feed, twice
SpecMta == Init("mta") /\ [][MtaEarlyReturn \/ MtaStep \/ MtaReturn \/ MtaCallAgain]_vars

\* fetchTravelData on every call
SpecTravel == Init("td") /\ [][FetchTravelData]_vars

\* fetchTransitStatus on every call
SpecTransit == Init("ts") /\ [][FetchTransitStatus]_vars

\* fetchTravelBan called again and again while time passes
SpecBan == Init("ban") /\ [][FetchTravelBan \/ Tick]_vars

\* one advisory request
SpecApp == Init("app") /\ [][HandleSubmit \/ FetcherSettles \/ BuildPayload \/ ShowResult]_vars

(***************************************************************************)
(* Properties.                                                             *)
(***************************************************************************)
IsStringOrNull(v) == v.t \in {"string", "null"}

\* C1: for every input object the reasons normalizeRecommendation returns
\* number two or three.
C1_ReasonsTwoOrThree ==
    recPc = "done" => Len(recOut.reasons) \in {2, 3}

C3_RecommendationInvariant ==
    recPc = "done" =>
      /\ recOut.verdict.t = "string"
      /\ recOut.verdict.s \in {"Go for it", "Go if you have to", "Wait it out",
                               "Stay in tonight"}
      /\ Len(recOut.reasons) \in {2, 3}
      /\ recOut.return_risk.t = "string"
      /\ recOut.return_risk.s \in {"low", "medium", "high", "unknown"}
      /\ IsStringOrNull(recOut.best_route_advice)
      /\ recOut.summary.t = "string"

\* the alerts of the feed that got past the route filter
PassedAlerts ==
    {i \in 1..Len(mtaFeed.entities) :
        mtaFeed.entities[i].alert /\ PassesFilter(mtaFeed.entities[i], mtaFilter)}

\* C4: once processMtaJson has processed the whole feed, every known line
\* named by an alert that passed the filter and carries a message has status
\* 'delays', whatever the alert's effect.
C4_MessageGatesDelay ==
    mtaPc = "done" =>
      \A i \in PassedAlerts :
        Truthy(pickAlertText(mtaFeed.entities[i])) =>
          \A l \in Range(pickRoutes(mtaFeed.entities[i])) \cap Lines :
            subwayStatus[l].status = "delays"

SeverityRank(sev) ==
    CASE sev = "none"     -> 0
      [] sev = "low"      -> 1
      [] sev = "moderate" -> 2
      [] sev = "high"     -> 3
      [] sev = "extreme"  -> 4
      [] OTHER            -> 5

\* C5: the maxSeverity processMtaJson returns is the ordinal maximum of the
\* severities of the alerts that passed the filter, in whatever order the
\* feed lists them.
C5_MaxSeverityIsMaximum ==
    mtaPc = "done" =>
      /\ \A i \in PassedAlerts :
           SeverityRank(mapSeverity(mtaFeed.entities[i])) <= SeverityRank(maxSeverity)
      /\ \/ maxSeverity = "none"
         \/ \E i \in PassedAlerts : mapSeverity(mtaFeed.entities[i]) = maxSeverity

\* C6 as stated: with no canonical verdict and not_tonight the only
\* verdict-like field, the verdict is "Wait it out".
C6_NotTonightIgnored ==
    ( /\ recPc = "done"
      /\ parsed["verdict"] = Undef
      /\ parsed["recommendation"] = Undef
      /\ parsed["wait_it_out"] = Undef
      /\ parsed["not_tonight"] = Str("Stay in tonight") )
    => recOut.verdict = Str("Wait it out")

\* C6 as amended: the alias list is recommendation, not_tonight, wait_it_out
\* and nothing else.  With no canonical verdict and no recommendation, a
\* not_tonight holding a canonical verdict is taken as the verdict; with none
\* of the four fields present the verdict is "Wait it out", whatever else
\* the object holds.
C6_StrictAliasMatching ==
    recPc = "done" =>
      /\ ( /\ parsed["verdict"] = Undef
           /\ parsed["recommendation"] = Undef
           /\ parsed["not_tonight"] \in {Str("Stay in tonight"), Str("Go for it")} )
         => recOut.verdict = parsed["not_tonight"]
      /\ (\A f \in VerdictFields : parsed[f] = Undef)
         => recOut.verdict = Str("Wait it out")

\* C6 witness: {not_tonight: "Stay in tonight"} was normalized.
C6_Witness ==
    /\ recPc = "done"
    /\ PresentFields(parsed) = {"not_tonight"}
    /\ parsed["not_tonight"] = Str("Stay in tonight")
    /\ recOut.verdict = Str("Stay in tonight")

\* the steps of the responses that are water transport
WaterSteps == {Steps.ferry, Steps.taxi}

AllRoutesOnWater(routes) ==
    /\ Len(routes) > 0
    /\ \A i \in 1..Len(routes) :
         /\ routes[i].legs
         /\ \E j \in 1..Len(routes[i].steps) : routes[i].steps[j] \in WaterSteps

DirectionsReached(call) ==
    call.key /\ (call.hint \/ call.geocode = "ok") /\ call.directions.kind = "json"

\* C7: when every alternative of the directions response has a water step,
\* fetchTravelData returns exactly the ferry-only shape; and in every
\* non-null TravelData ferry_only_route is true exactly when the numeric and
\* route fields are null and the two lists empty, and false exactly when
\* the numeric and route fields are all there.
C7_FerryOnlyShape ==
    tdPc = "done" =>
      /\ (DirectionsReached(tdIn) /\ AllRoutesOnWater(tdIn.directions.routes))
         => tdOut = [kind |-> "data", baseline_minutes |-> Null,
                     storm_minutes |-> Null, distance_miles |-> Null,
                     distance_category |-> "unknown", best_route |-> NoRouteText,
                     ferry_only_route |-> TRUE, relevantLines |-> <<>>,
                     route_steps |-> <<>>]
      /\ tdOut.kind = "data" =>
           /\ tdOut.ferry_only_route <=>
                ( /\ tdOut.baseline_minutes = Null
                  /\ tdOut.storm_minutes = Null
                  /\ tdOut.distance_miles = Null
                  /\ tdOut.best_route = NoRouteText
                  /\ tdOut.relevantLines = <<>>
                  /\ tdOut.route_steps = <<>> )
           /\ ~tdOut.ferry_only_route <=>
                ( /\ tdOut.baseline_minutes.t = "number"
                  /\ tdOut.storm_minutes.t = "number"
                  /\ tdOut.distance_miles.t = "number"
                  /\ tdOut.best_route # NoRouteText )

\* C7 witness: two alternatives, one on water by its mode and one by its
\* instruction text, gave the ferry-only shape.
C7_Witness ==
    /\ tdPc = "done"
    /\ Len(tdIn.directions.routes) = 2
    /\ Steps.ferry \in Range(tdIn.directions.routes[1].steps)
    /\ Steps.taxi \in Range(tdIn.directions.routes[2].steps)
    /\ tdOut.kind = "data"
    /\ tdOut.ferry_only_route

\* the multiplier of a severity bucket, in tenths
BucketMultiplier(sev) ==
    CASE sev = "none"     -> 10
      [] sev = "light"    -> 13
      [] sev = "moderate" -> 17
      [] sev = "severe"   -> 22
      [] sev = "extreme"  -> 30

\* C9: in every non-ferry TravelData storm_minutes is baseline_minutes times
\* the multiplier of the severity bucket passed in, rounded to the nearest
\* integer (halves up).
C9_StormMinutes ==
    ( /\ tdPc = "done"
      /\ tdOut.kind = "data"
      /\ ~tdOut.ferry_only_route
      /\ tdIn.weatherSeverity \in {"none", "light", "moderate", "severe", "extreme"} )
    => LET exact == tdOut.baseline_minutes.n * BucketMultiplier(tdIn.weatherSeverity)
           storm == tdOut.storm_minutes.n
       IN  10 * storm - 5 <= exact /\ exact < 10 * storm + 5

\* C9 witness: a baseline of 30 minutes under severe weather gave 66.
C9_Witness ==
    /\ tdPc = "done"
    /\ tdOut.kind = "data"
    /\ tdIn.weatherSeverity = "severe"
    /\ tdOut.baseline_minutes = Num(30)
    /\ tdOut.storm_minutes = Num(66)

\* C10: below 0.8 miles is walkable, from 0.8 up to but excluding 3 miles is
\* short_transit, 3 miles and more is long_transit, and the
\* distance_category of a non-ferry TravelData is the bucket of its own
\* distance_miles (miles in hundredths).
C10_DistanceBuckets ==
    /\ getDistanceCategory(79) = "walkable"
    /\ getDistanceCategory(80) = "short_transit"
    /\ getDistanceCategory(299) = "short_transit"
    /\ getDistanceCategory(300) = "long_transit"
    /\ ( /\ tdPc = "done"
         /\ tdOut.kind = "data"
         /\ ~tdOut.ferry_only_route )
       => LET d == tdOut.distance_miles.n
          IN  /\ d < 80 <=> tdOut.distance_category = "walkable"
              /\ (80 <= d /\ d < 300) <=> tdOut.distance_category = "short_transit"
              /\ d >= 300 <=> tdOut.distance_category = "long_transit"

\* C10 witness: a route of 0.8 miles was bucketed short_transit.
C10_Witness ==
    /\ tdPc = "done"
    /\ tdOut.kind = "data"
    /\ tdOut.distance_miles = Num(80)
    /\ tdOut.distance_category = "short_transit"

ReasoningCallFailed ==
    \/ reply.kind \in {"reject", "not_ok", "bad_json_body", "no_content", "no_text"}
    \/ /\ reply.kind = "text"
       /\ \/ reply.body = "truncated"
          \/ reply.lead = "note"
          \/ reply.tail = "note"
          \/ /\ reply.body \in {"null", "number"}
             /\ ~(reply.lead \in {"none", "fence"} /\ reply.tail \in {"none", "fence"})

\* C11: whenever the reasoning call fails (rejected fetch, non-OK response,
\* a body without the expected content, a text that cannot be parsed),
\* getRecommendation resolves, and to the fixed safe default, whose verdict
\* is "Wait it out" and whose return_risk is "high".
C11_SafeDefaultOnFailure ==
    (recPc = "done" /\ ReasoningCallFailed) =>
      /\ recOut = [verdict           |-> Str("Wait it out"),
                   reasons           |-> <<Str("Unable to assess conditions - consider waiting")>>,
                   return_risk       |-> Str("high"),
                   best_route_advice |-> Str("Stay home or postpone your trip until conditions improve."),
                   summary           |-> Str("Travel is not recommended at this time.")]
      /\ recOut.verdict = Str("Wait it out")
      /\ recOut.return_risk = Str("high")

\* C11 witness: a reply cut off inside its object, after an object with a
\* verdict was on its way, resolved to the safe default.
C11_Witness ==
    /\ recPc = "done"
    /\ reply.kind = "text"
    /\ reply.body = "truncated"
    /\ parsed["verdict"] = Str("Go for it")
    /\ recOut.verdict = Str("Wait it out")
    /\ recOut.return_risk = Str("high")

\* C17: in every state of the per-line status map, from the initial map on
\* and after each alert is applied, a line's status is 'delays' exactly when
\* its message is not null, whatever the severity of the alert that wrote it.
C17_DelaysIffMessage ==
    mtaPc \in {"loop", "done"} =>
      \A l \in DOMAIN subwayStatus :
        subwayStatus[l].status = "delays" <=> subwayStatus[l].message # Null

\* C17 witness: an alert without effect left a delay on line A, and an alert
\* of severity extreme without text left line 4 normal.
C17_Witness ==
    /\ mtaPc = "done"
    /\ subwayStatus["A"].status = "delays"
    /\ subwayStatus["A"].message = Str("Trains are running with delays")
    /\ subwayStatus["4"] = [status |-> "normal", message |-> Null]
    /\ \E i \in PassedAlerts :
         /\ "A" \in Range(pickRoutes(mtaFeed.entities[i]))
         /\ mapSeverity(mtaFeed.entities[i]) = "none"
         /\ Truthy(pickAlertText(mtaFeed.entities[i]))
    /\ \E i \in PassedAlerts :
         /\ "4" \in Range(pickRoutes(mtaFeed.entities[i]))
         /\ mapSeverity(mtaFeed.entities[i]) = "extreme"
         /\ ~Truthy(pickAlertText(mtaFeed.entities[i]))

\* C19: a second call of processMtaJson with the same feed and the same
\* filter starts from fresh locals and returns what the first call returned,
\* and no step of either call changes the feed or the filter.
C19_Idempotent ==
    /\ [](/\ (mtaCalls = 1 /\ mtaPc = "loop" /\ mtaIdx = 0) =>
               /\ subwayStatus = initSubwayStatus
               /\ maxSeverity = "none"
          /\ (mtaCalls = 1 /\ mtaPc = "done") =>
               mtaFirst = [subwayStatus |-> subwayStatus, maxSeverity |-> maxSeverity])
    /\ [][mtaFeed' = mtaFeed /\ mtaFilter' = mtaFilter]_vars

\* C19 witness: the second call returned, on a feed that left a delay and a
\* severity behind.
C19_Witness ==
    /\ mtaCalls = 1
    /\ mtaPc = "done"
    /\ mtaFilter # <<>>
    /\ maxSeverity # "none"
    /\ \E l \in Lines : subwayStatus[l].status = "delays"
    /\ mtaFirst.maxSeverity = maxSeverity

\* the per-line map the summary of the call is made from
SummarisedMap ==
    IF tsIn.routeIds.kind = "null" THEN initSubwayStatus
    ELSE processMtaJson(fetchMtaAlertsJson(tsIn.mta), tsIn.routeIds.ids).subwayStatus

\* C15: the summary of a TransitStatus is fixed by which lines and whether
\* PATH carry a message that is not null: none gives "Good service on all
\* lines", lines alone give "Delays on" and exactly those lines, PATH alone
\* gives "PATH service affected", both give the combined phrase with exactly
\* those lines; every result is one of the four.
C15_SummaryCases ==
    tsPc = "done" =>
      LET withMessage == {l \in DOMAIN SummarisedMap : SummarisedMap[l].message # Null}
          pathMessage == tsOut.status.path.present /\ tsOut.status.path.message # Null
          summary     == tsOut.status.summary
      IN  /\ summary.kind \in {"good", "subway", "path", "both"}
          /\ summary.kind = "good" <=> (withMessage = {} /\ ~pathMessage)
          /\ summary.kind = "subway" <=> (withMessage # {} /\ ~pathMessage)
          /\ summary.kind = "path" <=> (withMessage = {} /\ pathMessage)
          /\ summary.kind = "both" <=> (withMessage # {} /\ pathMessage)
          /\ Range(summary.lines) = withMessage
          /\ Len(summary.lines) = Cardinality(withMessage)

\* C15 witness: two lines and PATH carried a message.
C15_Witness ==
    /\ tsPc = "done"
    /\ tsOut.status.summary.kind = "both"
    /\ Range(tsOut.status.summary.lines) = {"A", "4"}
    /\ tsOut.status.path.message # Null

\* a step of fetchTravelData failed: no provider key, the destination not
\* resolved, or no route collection out of the directions response
TravelStepFailed(call) ==
    \/ ~call.key
    \/ ~call.hint /\ call.geocode \in {"not_ok", "no_features", "reject"}
    \/ call.directions.kind \in {"reject", "not_ok", "bad_json", "no_routes"}
    \/ call.directions.routes = <<>>

\* C18: fetchTravelData resolves on every call; to null whenever a step
\* fails (no provider key, destination not resolved, directions response not
\* OK or without routes, a thrown fetch or parse error), and to the
\* ferry-only shape, not null, when routes exist and all are water routes.
C18_NullOnFailure ==
    tdPc = "done" =>
      /\ tdOut.kind \in {"null", "data"}
      /\ TravelStepFailed(tdIn) => tdOut = NullTravelData
      /\ (~TravelStepFailed(tdIn) /\ AllRoutesOnWater(tdIn.directions.routes))
         => (tdOut.kind = "data" /\ tdOut.ferry_only_route)

\* C18 witness: with the key and the destination at hand, a directions
\* response that was not OK gave null.
C18_Witness ==
    /\ tdPc = "done"
    /\ tdIn.key
    /\ tdIn.hint
    /\ tdIn.directions.kind = "not_ok"
    /\ tdOut.kind = "null"

\* C16: the travel-ban cache is one slot with a life of 10 minutes.  A
\* fetchTravelBan call made less than 10 minutes after the slot was filled
\* returns the cached value and leaves the slot as it is; a call made with
\* an empty slot, or 10 minutes or more after it was filled, puts a new value
\* and the time of the call in the slot and returns the new value.
C16_CacheTTL ==
    [][ banCalls' # banCalls =>
          IF cachedTravelBan.present /\ now - cacheTimestamp.n < 600000
          THEN /\ banOut' = cachedTravelBan
               /\ cachedTravelBan' = cachedTravelBan
               /\ cacheTimestamp' = cacheTimestamp
          ELSE /\ cachedTravelBan'.present
               /\ cachedTravelBan'.id # cachedTravelBan.id
               /\ cacheTimestamp' = Num(now)
               /\ banOut' = cachedTravelBan' ]_vars

\* C16 witness: after the first value expired and was replaced, a call one
\* millisecond before the end of the second value's life returned it.
C16_Witness ==
    /\ banHit
    /\ cachedTravelBan.id = 2
    /\ banOut = cachedTravelBan
    /\ now - cacheTimestamp.n = 599999

\* C12: within one request the four fetches (weather, travel ban, transit
\* status, travel data) have all been started when the join is awaited and
\* none settles before it was started; the reasoning call is issued only
\* after all four have settled, exactly once, and its payload holds what
\* the four fetchers resolved to.
C12_FetchesThenOneReasoningCall ==
    LET sources == {"weather", "travel_ban", "transit_status", "travel_data"}
        issued  == appPc = "reasoning" \/ (appPc = "done" /\ screen = "result")
    IN  /\ appPc \in {"awaiting", "reasoning", "done"} =>
              /\ Len(appStarted) = 4
              /\ Range(appStarted) = sources
        /\ \A s \in sources :
              appFetched[s].state # "pending" => s \in Range(appStarted)
        /\ appClaudeCalls = IF issued THEN 1 ELSE 0
        /\ issued =>
              /\ \A s \in sources : appFetched[s].state = "fulfilled"
              /\ appMessage.payload = appPayload
              /\ appPayload.weather = fetchWeather(appReq.weather)
              /\ appPayload.travel_ban = banOut
              /\ appPayload.transit_status = fetchTransitStatus(appReq.transit)
              /\ appPayload.travel_data = fetchTravelData(appReq.travel)

\* C12 witness: a request that ended on the result screen after one
\* reasoning call, with a route, a delayed line and rain in its payload.
C12_Witness ==
    /\ appPc = "done"
    /\ screen = "result"
    /\ appClaudeCalls = 1
    /\ appPayload.travel_data.kind = "data"
    /\ appPayload.transit_status.subway["A"].status = "delays"
    /\ appPayload.weather.precipitation # Null

C14_RequestLevelFailure ==
    LET unreachable ==
            /\ appReq.weather.current = "reject" /\ appReq.weather.forecast = "reject"
            /\ appReq.transit.mta.kind = "reject" /\ appReq.transit.path.kind = "reject"
            /\ appReq.travel.directions.kind = "reject"
            /\ appReq.reply.kind = "reject"
    IN  appPc = "done" /\ unreachable => screen = "input" /\ result = Null

\* C14, amended: when every upstream source is unreachable for a request,
\* the request ends on the result screen with a degraded result stored: the
\* safe default recommendation ("Wait it out", return risk high), the
\* all-null weather, an all-normal transit status and null travel data.  No
\* finished request leaves the screen on input.
C14_DegradedResultShown ==
    LET unreachable ==
            /\ appReq.weather.current = "reject" /\ appReq.weather.forecast = "reject"
            /\ appReq.transit.mta.kind = "reject" /\ appReq.transit.path.kind = "reject"
            /\ appReq.travel.directions.kind = "reject"
            /\ appReq.reply.kind = "reject"
    IN  /\ appPc = "done" => screen = "result" /\ result # Null
        /\ appPc = "done" /\ unreachable =>
              /\ result.recommendation.verdict = Str("Wait it out")
              /\ result.recommendation.return_risk = Str("high")
              /\ \A f \in DOMAIN result.weather : result.weather[f] = Null
              /\ \A l \in DOMAIN result.transit.subway :
                    result.transit.subway[l].status = "normal"
              /\ result.transit.summary.kind = "good"
              /\ result.transit.severity = "none"
              /\ result.travelData.kind = "null"

\* C14 witness: a request from Hoboken with both provider keys configured
\* and every endpoint unreachable has ended on the result screen.
C14_Witness ==
    /\ appPc = "done"
    /\ appReq.weather.key /\ appReq.travel.key
    /\ appReq.weather.current = "reject" /\ appReq.weather.forecast = "reject"
    /\ appReq.transit.mta.kind = "reject" /\ appReq.transit.path.kind = "reject"
    /\ appReq.travel.directions.kind = "reject"
    /\ appReq.reply.kind = "reject"
    /\ isPathRelevant(appReq.transit.origin, appReq.transit.destination)
    /\ screen = "result"
    /\ result.recommendation.verdict = Str("Wait it out")

\* C20: the message sent to the reasoning call carries the ferry-only
\* directive when the payload's travel data is ferry-only, the directive
\* naming exactly the relevant lines when the travel data has a non-empty
\* relevantLines, and no directive otherwise.
C20_RouteDirective ==
    appPc \in {"reasoning", "done"} =>
        LET travelData == appPayload.travel_data
        IN  IF travelData.kind = "data" /\ travelData.ferry_only_route
            THEN appMessage.routeContext.kind = "ferry"
            ELSE IF travelData.kind = "data" /\ Len(travelData.relevantLines) > 0
            THEN appMessage.routeContext =
                    [kind |-> "lines", lines |-> travelData.relevantLines]
            ELSE appMessage.routeContext.kind = "none"

\* C21: the severity mapper is total over effect codes.  An absent or empty
\* code maps to none, the seven listed codes map as the table says, every
\* other non-empty code maps to moderate, and the result is always one of
\* none, low, moderate, high, extreme.
C21_SeverityTable ==
    mtaPc = "done" =>
      \A i \in 1..Len(mtaFeed.entities) :
         LET alert    == mtaFeed.entities[i]
             effect   == alert.effect
             severity == mapSeverity(alert)
         IN  alert.alert =>
               /\ severity \in {"none", "low", "moderate", "high", "extreme"}
               /\ severity =
                    CASE effect = ""                                          -> "none"
                      [] effect = "NO_SERVICE"                                -> "extreme"
                      [] effect \in {"REDUCED_SERVICE", "SIGNIFICANT_DELAYS"} -> "high"
                      [] effect \in {"DETOUR", "OTHER_EFFECT", "UNKNOWN_EFFECT"} -> "moderate"
                      [] effect = "STOP_MOVED"                                -> "low"
                      [] OTHER                                                -> "moderate"

\* C22: with a non-empty route filter, an alert that touches none of the
\* requested routes changes neither a line's status nor maxSeverity: the
\* call resolves to what it resolves to on the feed without that alert.  The
\* subway map returned has as keys exactly the requested identifiers that
\* are known lines.
C22_FilterFrame ==
    LET ids      == tsIn.routeIds.ids
        entities == tsIn.mta.feed.entities
        touched(e) == IF e.informed.present
                      THEN {e.informed.ids[k] : k \in 1..Len(e.informed.ids)} \ {""}
                      ELSE {}
        without(i) == [k \in 1..(Len(entities) - 1) |->
                         IF k < i THEN entities[k] ELSE entities[k + 1]]
    IN  (tsPc = "done" /\ tsIn.routeIds.kind = "array" /\ Len(ids) > 0) =>
          /\ DOMAIN tsOut.status.subway = Range(ids) \cap Lines
          /\ \A i \in 1..Len(entities) :
                (tsIn.mta.kind = "json" /\ touched(entities[i]) \cap Range(ids) = {}) =>
                   tsOut.status =
                     fetchTransitStatus([tsIn EXCEPT !.mta.feed.entities = without(i)])

\* C23: route identifiers outside the 22 known lines are ignored.  After
\* processMtaJson on any feed the key set of subwayStatus is exactly the
\* known lines, and an alert naming only unknown identifiers leaves every
\* line's status as it was.
C23_UnknownRoutesIgnored ==
    /\ [](mtaPc = "done" => DOMAIN subwayStatus = Lines)
    /\ [][ ( /\ mtaPc = "loop"
             /\ mtaIdx' = mtaIdx + 1
             /\ LET alert == mtaFeed.entities[mtaIdx + 1]
                IN  ~alert.informed.present
                    \/ \A k \in 1..Len(alert.informed.ids) :
                          alert.informed.ids[k] \notin Lines )
           => \A l \in Lines : subwayStatus'[l] = subwayStatus[l] ]_vars

\* C24: a malformed feed never makes the normalizer fail.  A null feed or a
\* feed whose entity collection is not an array yields every known line
\* normal with a null message and maxSeverity none; an entity without an
\* alert and an alert without an informed-entity list are skipped: the
\* result is that of the feed without them.
C24_MalformedFeedSkipped ==
    mtaPc = "done" =>
      /\ mtaFeed.kind # "array" =>
            /\ \A l \in Lines : subwayStatus[l] = [status |-> "normal", message |-> Null]
            /\ maxSeverity = "none"
      /\ mtaFeed.kind = "array" =>
            LET wellFormed == SelectSeq(mtaFeed.entities,
                                        LAMBDA e : e.alert /\ e.informed.present)
            IN  [subwayStatus |-> subwayStatus, maxSeverity |-> maxSeverity] =
                   processMtaJson([kind |-> "array", entities |-> wellFormed], mtaFilter)

\* C25: the PATH parser scans the messages of the results and destinations
\* in feed order and stops at the first one that qualifies.  A message with
\* the text "Delayed" gives status delays and the fixed delayed message; one
\* with more than 1200 seconds to arrival gives status delays and the
\* minutes, rounded; if none qualifies (1200 seconds does not) or the fetch
\* or the parse fails, the status is normal and the message null.
C25_PathFirstQualifying ==
    LET path      == tsOut.status.path
        msgs      == IF tsIn.path.kind = "json"
                     THEN Flatten(Flatten(tsIn.path.results)) ELSE <<>>
        marked(m) == /\ m.arrivalTimeMessage.present
                     /\ \E k \in 1..(Len(m.arrivalTimeMessage.text) - 6) :
                           SubSeq(m.arrivalTimeMessage.text, k, k + 6) =
                              <<"D", "e", "l", "a", "y", "e", "d">>
        late(m)   == m.secondsToArrival > 1200
        hits      == {k \in 1..Len(msgs) : marked(msgs[k]) \/ late(msgs[k])}
    IN  (tsPc = "done" /\ tsIn.routeIds.kind = "array" /\ path.present) =>
          IF hits = {}
          THEN path.status = "normal" /\ path.message = Null
          ELSE LET first == msgs[CHOOSE k \in hits : \A j \in hits : k <= j]
               IN  /\ path.status = "delays"
                   /\ IF marked(first)
                      THEN path.message = Str("Delays on PATH - next train delayed")
                      ELSE /\ path.message.s = "Delays on PATH - next train %d min"
                           /\ 60 * path.message.n - 30 <= first.secondsToArrival
                           /\ first.secondsToArrival < 60 * path.message.n + 30

\* C25 witness: a first message at exactly 1200 seconds was passed over and
\* the next one, at 1201 seconds with "delayed" in lower case, made the
\* parser return delays of 20 minutes, before a message with "Delayed".
C25_Witness ==
    /\ tsPc = "done"
    /\ tsIn.routeIds.kind = "array"
    /\ tsIn.path.kind = "json"
    /\ Len(tsIn.path.results) = 2
    /\ tsOut.status.path.present
    /\ tsOut.status.path.status = "delays"
    /\ tsOut.status.path.message.n = 20

\* C26: the message sent to the reasoning call carries the per-line transit
\* map cut down to the lines with an issue: no line whose status is normal
\* and whose message is null appears in the per-line transit data of the
\* message, which is the stripped map and the subway map of the payload
\* that the message prints in full.
C26_OnlyProblemLines ==
    appPc \in {"reasoning", "done"} =>
        \A lines \in {appMessage.strippedTransit.subway.lines,
                      appMessage.payload.transit_status.subway} :
           \A l \in DOMAIN lines :
              ~(lines[l].status = "normal" /\ lines[l].message = Null)

\* C27: a boolean verdict value, in the canonical verdict field or in the
\* alias that is read in its place, is coerced into one of the two extreme
\* verdicts, "Go for it" or "Stay in tonight", never into a middle one.
C27_BooleanToExtremes ==
    LET aliases == <<"verdict", "recommendation", "not_tonight", "wait_it_out">>
        \* the first field of the chain that is there
        arrives(i) == /\ parsed[aliases[i]] # Undef
                      /\ \A j \in 1..(i - 1) : parsed[aliases[j]] = Undef
    IN  ( /\ recPc = "done"
          /\ \E i \in 1..4 : arrives(i) /\ parsed[aliases[i]].t = "boolean" )
        => recOut.verdict \in {Str("Go for it"), Str("Stay in tonight")}

\* C28: normalizeRecommendation leaves the parsed object it is given as it
\* was, its reasons array included, and a second call on the same object
\* returns the same Recommendation as the first.
C28_ParsedUntouched ==
    recPc = "done" =>
        /\ parsedAfter = parsed
        /\ normalizeRecommendation(parsedAfter) = recOut

\* C29: however fetchTravelBan calls fall around the end of the cached
\* value's life, every caller receives a ban of equal value; in every state
\* the cache slot is either empty, value and timestamp both unset, or holds a
\* value together with the timestamp written with it; and the stored
\* timestamp never decreases.
C29_RacingCallsAgree ==
    /\ [] ( \/ cachedTravelBan = NoBan /\ cacheTimestamp = Null
            \/ /\ cachedTravelBan.present
               /\ cacheTimestamp.t = "number"
               /\ cacheTimestamp.n <= now )
    /\ [] ( banCalls > 0 => banOut.present )
    /\ [][ LET value(ban) == [f \in DOMAIN ban \ {"id"} |-> ban[f]]
           IN  /\ (banCalls' # banCalls /\ banCalls > 0)
                    => value(banOut') = value(banOut)
               /\ cachedTravelBan' # cachedTravelBan
                    => cacheTimestamp' = Num(now')
               /\ cacheTimestamp # Null
                    => (cacheTimestamp' # Null /\ cacheTimestamp'.n >= cacheTimestamp.n)
         ]_vars

\* C29 witness: the first value expired, a call at that instant wrote a second
\* one, and another call at the same instant was answered from the slot.
C29_Witness ==
    /\ banCalls = 3
    /\ banHit
    /\ cachedTravelBan.id = 2
    /\ banOut = cachedTravelBan
    /\ cacheTimestamp = Num(now)
    /\ now >= 1000 + CACHE_DURATION_MS

\* C30: in every TransitStatus that fetchTransitStatus returns, with or
\* without a route filter, the summary agrees with the returned subway map:
\* every line the summary names is a key of the map with a message, and
\* every line of the map with a message is named in the summary.
C30_SummaryMatchesMap ==
    tsPc = "done" =>
        Range(tsOut.status.summary.lines) =
            {l \in DOMAIN tsOut.status.subway : Truthy(tsOut.status.subway[l].message)}

====
